---- MODULE Spec2Model ----
(***************************************************************************)
(* Grid algebra of flowtools-rewrite: bin combining (downsample), bin      *)
(* splitting (supersample) and frame averaging of gridded flow fields.     *)
(*                                                                         *)
(* Numbers.  A float is modelled as a pair <<n, d>>:                       *)
(*   d > 0   the finite value n/d, kept in lowest terms,                   *)
(*   d = 0   n = 0 is NaN, n = 1 is +inf, n = -1 is -inf,                  *)
(*   d = -1  n = 1 / -1 is +/- the largest finite double (what numpy's     *)
(*           nan_to_num puts in place of an infinity).                     *)
(* Finite arithmetic is exact: rounding and overflow of doubles are not    *)
(* modelled, the special values and their propagation are.                 *)
(*                                                                         *)
(* Arrays.  A numpy structured array is a sequence of cells, a cell a      *)
(* record with one number per label.  Arrays a caller can see live in      *)
(* `heap` under a reference, so that sharing of storage is observable.     *)
(***************************************************************************)
EXTENDS Integers, Naturals, Sequences, FiniteSets, TLC

VARIABLES
    heap,     \* reference -> array: the storage of every array in existence
    before,   \* the heap as it was when the inputs were handed over
    flow,     \* the FlowData object handed to a resampling call
    frames,   \* the records (label -> reference) handed to average_data
    call,     \* the call made: operation and arguments
    result,   \* the FlowData a resampling call returned, or its error
    mean,     \* the record average_data returned, or its error
    back,     \* the FlowData that downsampling the returned record gave
    pc,       \* "input": nothing called yet; "done": the call returned;
              \* "poked": the caller wrote into the returned array;
              \* "back": the returned record was downsampled again, or a
              \* block was transferred into the returned grid;
              \* "again": a block was transferred a second time;
              \* "twice": the downsampled record was downsampled again;
              \* "both": the map combined was downsampled as well
    disk,     \* the file system: file name -> content of every file there is
    gen,      \* the generator of file names being consumed, or the writer
              \* being called: its arguments and local variables
    yielded   \* what the generator has yielded so far, in order

vars == <<heap, before, flow, frames, call, result, mean, back, pc,
          disk, gen, yielded>>

---------------------------------------------------------------------------
(* Bounds of the model *)

MaxBins == 4
MaxFactor == 2
MaxFrames == 3
MaxFine == 18      \* cells of a supersampled grid
MaxRecords == 2
MaxBlock == 2
MaxFile == 4       \* highest number of a file there is
MaxGroup == 2      \* files of a bundle
MaxBackup == 3     \* highest number of a backup there is at the start
MaxWrites == 3     \* calls of the writer

---------------------------------------------------------------------------
(* Floats *)

Abs(n) == IF n < 0 THEN -n ELSE n

RECURSIVE Gcd(_, _)
Gcd(a, b) == IF b = 0 THEN a ELSE Gcd(b, a % b)

\* n/d in lowest terms with positive denominator (d # 0)
Rat(n, d) ==
    LET g == Gcd(Abs(n), Abs(d))
        s == IF d < 0 THEN -1 ELSE 1
    IN  <<(s * n) \div g, (s * d) \div g>>

Num(n) == <<n, 1>>
Zero == <<0, 1>>
Half == <<1, 2>>
NaN == <<0, 0>>
PosInf == <<1, 0>>
NegInf == <<-1, 0>>
FloatMax == <<1, -1>>
FloatMin == <<-1, -1>>

IsNaN(a) == a[2] = 0 /\ a[1] = 0
IsInf(a) == a[2] = 0 /\ a[1] # 0
IsFinite(a) == a[2] # 0
IsZero(a) == a[2] > 0 /\ a[1] = 0
Sign(n) == IF n > 0 THEN 1 ELSE IF n < 0 THEN -1 ELSE 0

\* a + b
FAdd(a, b) ==
    IF IsNaN(a) \/ IsNaN(b) THEN NaN
    ELSE IF IsInf(a) /\ IsInf(b) THEN (IF a[1] = b[1] THEN a ELSE NaN)
    ELSE IF IsInf(a) THEN a
    ELSE IF IsInf(b) THEN b
    ELSE LET g == Gcd(a[2], b[2])
         IN  Rat(a[1] * (b[2] \div g) + b[1] * (a[2] \div g),
                 (a[2] \div g) * b[2])

\* a * b
FMul(a, b) ==
    IF IsNaN(a) \/ IsNaN(b) THEN NaN
    ELSE IF IsInf(a) \/ IsInf(b)
         THEN (IF IsZero(a) \/ IsZero(b) THEN NaN
               ELSE <<Sign(a[1]) * Sign(b[1]), 0>>)
    ELSE Rat(a[1] * b[1], a[2] * b[2])

FNeg(a) == <<-a[1], a[2]>>
FSub(a, b) == FAdd(a, FNeg(b))

\* a / b as numpy divides float arrays: x/0 is +-inf, 0/0 is NaN, no exception
FDiv(a, b) ==
    IF IsNaN(a) \/ IsNaN(b) THEN NaN
    ELSE IF IsInf(a) THEN (IF IsInf(b) THEN NaN
                           ELSE <<a[1] * (IF b[1] < 0 THEN -1 ELSE 1), 0>>)
    ELSE IF IsInf(b) THEN Zero
    ELSE IF b[1] = 0 THEN (IF a[1] = 0 THEN NaN ELSE <<Sign(a[1]), 0>>)
    ELSE Rat(a[1] * b[2], a[2] * b[1])

\* a <= b
FLe(a, b) ==
    /\ ~IsNaN(a)
    /\ ~IsNaN(b)
    /\ IF IsInf(a) \/ IsInf(b)
       THEN a[1] * b[2] <= b[1] * a[2] /\ (IsInf(a) /\ IsInf(b) => a[1] <= b[1])
       ELSE LET g == Gcd(a[2], b[2])
            IN  a[1] * (b[2] \div g) <= b[1] * (a[2] \div g)

FLt(a, b) == FLe(a, b) /\ a # b

\* The array a, computed once: TLC evaluates a function expression anew at
\* every application unless it has been compared
Eval(a) == LET v == a IN IF v = v THEN v ELSE v

\* np.sum / np.mean of a flat array
RECURSIVE SumSeq(_)
SumSeq(s) == IF s = <<>> THEN Zero ELSE FAdd(s[1], SumSeq(Tail(s)))

MeanSeq(s) == FDiv(SumSeq(s), Num(Len(s)))

\* a column of a structured array: data[l]
Col(data, l) == Eval([k \in 1..Len(data) |-> data[k][l]])

\* elementwise product of two equally long arrays
MulSeq(a, b) == Eval([k \in 1..Len(a) |-> FMul(a[k], b[k])])

RECURSIVE MinSeq(_)
MinSeq(s) ==
    IF Len(s) = 1 THEN s[1]
    ELSE LET m == MinSeq(Tail(s)) IN IF FLe(s[1], m) THEN s[1] ELSE m

Range(s) == {s[k] : k \in 1..Len(s)}

---------------------------------------------------------------------------
(* Structured arrays and FlowData *)

Min(a, b) == IF a <= b THEN a ELSE b
Max(a, b) == IF a >= b THEN a ELSE b

None == <<>>

\* flow.data.dtype.names, and the coordinate labels every call here uses
names == <<"X", "Y", "M", "N", "U">>
coord_labels == <<"X", "Y">>
Labels == Range(names)

\* the labels l of a list of (l, w) pairs, and the last pair given for l
PairLabels(weights) == {weights[k][1] : k \in 1..Len(weights)}
WeightOf(weights, l) ==
    LET ks == {k \in 1..Len(weights) : weights[k][1] = l}
    IN  weights[CHOOSE k \in ks : \A m \in ks : m <= k][2]

\* data[inds] for a boolean index array
RECURSIVE BoolIndex(_, _)
BoolIndex(data, inds) ==
    IF data = <<>> THEN <<>>
    ELSE (IF inds[1] THEN <<data[1]>> ELSE <<>>)
         \o BoolIndex(Tail(data), Tail(inds))

\* np.sort(data, order=labels): lexicographic on the ordered labels, ties
\* broken by the remaining fields in dtype order
RECURSIVE LexLt(_, _, _)
LexLt(a, b, labels) ==
    IF labels = <<>> THEN FALSE
    ELSE LET l == labels[1]
         IN  IF FLt(a[l], b[l]) THEN TRUE
             ELSE IF FLt(b[l], a[l]) THEN FALSE
             ELSE LexLt(a, b, Tail(labels))

RECURSIVE InsertSorted(_, _, _)
InsertSorted(c, s, labels) ==
    IF s = <<>> THEN <<c>>
    ELSE IF LexLt(s[1], c, labels) THEN <<s[1]>> \o InsertSorted(c, Tail(s), labels)
    ELSE <<c>> \o s

RECURSIVE SortRec(_, _)
SortRec(s, labels) ==
    IF s = <<>> THEN <<>>
    ELSE InsertSorted(s[1], SortRec(Tail(s), labels), labels)

np_sort(data, order) ==
    SortRec(data, order \o SelectSeq(names, LAMBDA l : l \notin Range(order)))

\* np.reshape(flat, (rows, cols)): a[i][j], indices from 0, row-major
np_reshape(flat, rows, cols) ==
    Eval([i \in 0..(rows - 1) |->
             [j \in 0..(cols - 1) |-> flat[(i * cols) + j + 1]]])

\* a[r0:r1, c0:c1] flattened row by row; numpy clips a slice to the array
Slice2(a, rows, cols, r0, r1, c0, c1) ==
    LET rb == Min(r1, rows)
        cb == Min(c1, cols)
        h == Max(rb - r0, 0)
        w == Max(cb - c0, 0)
    IN  Eval([k \in 1..(h * w) |->
                 a[r0 + ((k - 1) \div w)][c0 + ((k - 1) % w)]])

\* a.ravel() of a 2D array
Ravel(a, rows, cols) == Slice2(a, rows, cols, 0, rows, 0, cols)

\* np.meshgrid(x, y), indexing 'xy': both of shape (len(y), len(x))
np_meshgrid(x, y) ==
    Eval(<< [i \in 0..(Len(y) - 1) |-> [j \in 0..(Len(x) - 1) |-> x[j + 1]]],
            [i \in 0..(Len(y) - 1) |-> [j \in 0..(Len(x) - 1) |-> y[i + 1]]] >>)

\* np.average(a, weights=w): ZeroDivisionError when the weights sum to zero
np_average(a, w) ==
    LET scl == SumSeq(w)
    IN  IF IsZero(scl) THEN [err |-> TRUE, val |-> Zero]
        ELSE [err |-> FALSE, val |-> FDiv(SumSeq(MulSeq(a, w)), scl)]

\* An object of class FlowData: the structured array `data` (storage `ref`,
\* 0 for storage of its own not yet placed in the heap) and the grid info.
FlowData(data, info) ==
    [status |-> "ok", ref |-> 0, data |-> data, shape |-> info.shape,
     spacing |-> info.spacing, origin |-> info.origin,
     num_bins |-> info.num_bins]

\* An exception leaving the call: no object is returned
Raise(e) ==
    [status |-> e, ref |-> 0, data |-> <<>>, shape |-> <<0, 0>>,
     spacing |-> <<Zero, Zero>>, origin |-> <<Zero, Zero>>, num_bins |-> 0]

---------------------------------------------------------------------------
(* droplets/resample.py: downsample_flow_data *)

\* (mutant) the upper limit excluded
get_cut_indices_of_axis_open(data, lims, label) ==
    LET vmin == IF lims[1] = None THEN NegInf ELSE lims[1]
        vmax == IF lims[2] = None THEN PosInf ELSE lims[2]
    IN  [k \in 1..Len(data) |->
            FLe(vmin, data[k][label]) /\ FLt(data[k][label], vmax)]

get_cut_indices_of_axis(data, lims, label) ==
    LET vmin == IF lims[1] = None THEN NegInf ELSE lims[1]
        vmax == IF lims[2] = None THEN PosInf ELSE lims[2]
    IN  [k \in 1..Len(data) |->
            FLe(vmin, data[k][label]) /\ FLe(data[k][label], vmax)]

\* np.min of an empty array raises ValueError
cut_system_limits(f, xlim, ylim) ==
    LET ix == get_cut_indices_of_axis(f.data, xlim, "X")
        iy == get_cut_indices_of_axis(f.data, ylim, "Y")
        inds == [k \in 1..Len(f.data) |-> ix[k] /\ iy[k]]
        data == BoolIndex(f.data, inds)
        shape == [k \in 1..2 |-> Cardinality(Range(Col(data, coord_labels[k])))]
    IN  IF data = <<>> THEN Raise("ValueError")
        ELSE FlowData(data,
                [shape |-> shape,
                 origin |-> [k \in 1..2 |-> MinSeq(Col(data, coord_labels[k]))],
                 spacing |-> f.spacing,
                 num_bins |-> shape[1] * shape[2]])

\* (mutant) the factor of the other axis used for the new shape
get_downscaled_grid_info_swapped(f, num_combine) ==
    LET new_spacing == [k \in 1..2 |-> FMul(f.spacing[k], Num(num_combine[k]))]
        new_shape == [k \in 1..2 |-> f.shape[k] \div num_combine[3 - k]]
        new_origin == [k \in 1..2 |->
            FAdd(f.origin[k], FMul(Half, FSub(new_spacing[k], f.spacing[k])))]
    IN  [spacing |-> new_spacing, shape |-> new_shape, origin |-> new_origin,
         num_bins |-> new_shape[1] * new_shape[2]]

\* (mutant) the new shape rounded up: incomplete windows kept
get_downscaled_grid_info_ceil(f, num_combine) ==
    LET new_spacing == [k \in 1..2 |-> FMul(f.spacing[k], Num(num_combine[k]))]
        new_shape == [k \in 1..2 |->
            (f.shape[k] + num_combine[k] - 1) \div num_combine[k]]
        new_origin == [k \in 1..2 |->
            FAdd(f.origin[k], FMul(Half, FSub(new_spacing[k], f.spacing[k])))]
    IN  [spacing |-> new_spacing, shape |-> new_shape, origin |-> new_origin,
         num_bins |-> new_shape[1] * new_shape[2]]

\* _get_downscaled_grid_info keeping the origin of the input
get_downscaled_grid_info_unshifted(f, num_combine) ==
    LET new_spacing == [k \in 1..2 |-> FMul(f.spacing[k], Num(num_combine[k]))]
        new_shape == [k \in 1..2 |-> f.shape[k] \div num_combine[k]]
    IN  [spacing |-> new_spacing, shape |-> new_shape, origin |-> f.origin,
         num_bins |-> new_shape[1] * new_shape[2]]

get_downscaled_grid_info(f, num_combine) ==
    LET new_spacing == [k \in 1..2 |-> FMul(f.spacing[k], Num(num_combine[k]))]
        new_shape == [k \in 1..2 |-> f.shape[k] \div num_combine[k]]
        new_origin == [k \in 1..2 |->
            FAdd(f.origin[k], FMul(Half, FSub(new_spacing[k], f.spacing[k])))]
    IN  [spacing |-> new_spacing, shape |-> new_shape, origin |-> new_origin,
         num_bins |-> new_shape[1] * new_shape[2]]

\* o + dx*np.arange(n) per axis, meshed
get_downscaled_grid_coords(info) ==
    LET axis(k) == [m \in 1..info.shape[k] |->
                       FAdd(info.origin[k], FMul(info.spacing[k], Num(m - 1)))]
    IN  np_meshgrid(axis(1), axis(2))

\* The value of label l in output cell (i, j): the loop body of _combine_bins
\* (mutant) the plain mean of the window, the weights forgotten
CombineAvgLabelPlainMean(reshaped_input, shape, num_combine, weights, l, i, j) ==
    LET nx == num_combine[1]
        ny == num_combine[2]
        bins == Slice2(reshaped_input, shape[1], shape[2],
                       ny * i, ny * (i + 1), nx * j, nx * (j + 1))
    IN  MeanSeq(Col(bins, l))

CombineAvgLabel(reshaped_input, shape, num_combine, weights, l, i, j) ==
    LET nx == num_combine[1]
        ny == num_combine[2]
        bins == Slice2(reshaped_input, shape[1], shape[2],
                       ny * i, ny * (i + 1), nx * j, nx * (j + 1))
        avg == np_average(Col(bins, l), Col(bins, WeightOf(weights, l)))
    IN  IF avg.err THEN Zero ELSE avg.val

\* (mutant) the window's row and column factors mixed up
CombineSumLabelSwapped(reshaped_input, shape, num_combine, l, i, j) ==
    LET nx == num_combine[1]
        ny == num_combine[2]
        bins == Slice2(reshaped_input, shape[1], shape[2],
                       nx * i, nx * (i + 1), ny * j, ny * (j + 1))
    IN  SumSeq(Col(bins, l))

CombineSumLabel(reshaped_input, shape, num_combine, l, i, j) ==
    LET nx == num_combine[1]
        ny == num_combine[2]
        bins == Slice2(reshaped_input, shape[1], shape[2],
                       ny * i, ny * (i + 1), nx * j, nx * (j + 1))
    IN  SumSeq(Col(bins, l))

\* (mutant) the input reshaped in the order it is stored in
combine_bins_unsorted(coords, f, num_combine, info, weights) ==
    LET rows == info.shape[2]
        cols == info.shape[1]
        shape == <<f.shape[2], f.shape[1]>>
        reshaped_input == np_reshape(f.data, shape[1], shape[2])
        weighted_labels == PairLabels(weights)
        data == [i \in 0..(rows - 1) |-> [j \in 0..(cols - 1) |->
            [l \in Labels |->
                IF l = "X" THEN coords[1][i][j]
                ELSE IF l = "Y" THEN coords[2][i][j]
                ELSE IF l \in weighted_labels
                     THEN CombineAvgLabel(reshaped_input, shape, num_combine,
                                          weights, l, i, j)
                ELSE CombineSumLabel(reshaped_input, shape, num_combine,
                                     l, i, j)]]]
    IN  IF Len(f.data) # shape[1] * shape[2] THEN <<"ValueError", <<>>>>
        ELSE <<"ok", Ravel(data, rows, cols)>>

\* np.reshape raises ValueError when the sizes differ
combine_bins(coords, f, num_combine, info, weights) ==
    LET rows == info.shape[2]
        cols == info.shape[1]
        shape == <<f.shape[2], f.shape[1]>>
        reshaped_input == np_reshape(np_sort(f.data, <<"Y", "X">>),
                                     shape[1], shape[2])
        weighted_labels == PairLabels(weights)
        data == [i \in 0..(rows - 1) |-> [j \in 0..(cols - 1) |->
            [l \in Labels |->
                IF l = "X" THEN coords[1][i][j]
                ELSE IF l = "Y" THEN coords[2][i][j]
                ELSE IF l \in weighted_labels
                     THEN CombineAvgLabel(reshaped_input, shape, num_combine,
                                          weights, l, i, j)
                ELSE CombineSumLabel(reshaped_input, shape, num_combine,
                                     l, i, j)]]]
    IN  IF Len(f.data) # shape[1] * shape[2] THEN <<"ValueError", <<>>>>
        ELSE <<"ok", Ravel(data, rows, cols)>>

downsample_flow_data(f, num_combine, weights, xlim, ylim) ==
    LET cut == cut_system_limits(f, xlim, ylim)
        info == get_downscaled_grid_info(cut, num_combine)
        coords == get_downscaled_grid_coords(info)
        resampled_flow == combine_bins(coords, cut, num_combine, info, weights)
    IN  IF cut.status # "ok" THEN cut
        ELSE IF resampled_flow[1] # "ok" THEN Raise(resampled_flow[1])
        ELSE FlowData(resampled_flow[2], info)

---------------------------------------------------------------------------
(* droplets/resample.py: supersample_flow_data *)

\* (mutant) the translation written into the array of the original
translate_in_place(f, label, t) ==
    IF label \notin Labels THEN Raise("KeyError")
    ELSE [f EXCEPT !.data = Eval([k \in 1..Len(f.data) |->
                      [f.data[k] EXCEPT ![label] = FAdd(@, t)]])]

\* FlowData.translate(label, trans): a new object, field `label` moved by
\* trans, everything else equal; KeyError for a label the record has not
translate(f, label, t) ==
    IF label \notin Labels THEN Raise("KeyError")
    ELSE [f EXCEPT !.ref = 0,
                   !.data = Eval([k \in 1..Len(f.data) |->
                      [f.data[k] EXCEPT ![label] = FAdd(@, t)]])]

\* (mutant) a copy that shares the array of the original
FlowCopyShallow(f) == f

\* FlowData.copy(): a new object with equal info and array storage of its own
FlowCopy(f) == [f EXCEPT !.ref = 0]

\* FlowData.sort(coord_labels): the object's array sorted in place into
\* raster order (y-major, x-minor)
FlowSort(f) == [f EXCEPT !.data = np_sort(f.data, <<"Y", "X">>)]

\* _get_superscaled_grid_info with the origin moved to the centre of the first
\* fine bin
get_superscaled_grid_info_shifted(f, n) ==
    LET shape == [k \in 1..2 |-> f.shape[k] * n]
        spacing == [k \in 1..2 |-> FDiv(f.spacing[k], Num(n))]
        shift(k) == FMul(Half, FSub(spacing[k], f.spacing[k]))
    IN  [spacing |-> spacing, shape |-> shape,
         origin |-> <<FAdd(MinSeq(Col(f.data, "X")), shift(1)),
                      FAdd(MinSeq(Col(f.data, "Y")), shift(2))>>,
         num_bins |-> shape[1] * shape[2]]

get_superscaled_grid_info(f, n) ==
    LET shape == [k \in 1..2 |-> f.shape[k] * n]
        spacing == [k \in 1..2 |-> FDiv(f.spacing[k], Num(n))]
    IN  [spacing |-> spacing, shape |-> shape,
         origin |-> <<MinSeq(Col(f.data, "X")), MinSeq(Col(f.data, "Y"))>>,
         num_bins |-> shape[1] * shape[2]]

get_superscaled_grid_coords(info) ==
    LET axis(k) == [m \in 1..info.shape[k] |->
                       FAdd(info.origin[k], FMul(info.spacing[k], Num(m - 1)))]
    IN  np_meshgrid(axis(1), axis(2))

\* every coarse cell (i, j) written to the block [i*n, (i+1)*n) x [j*n, (j+1)*n)
transfer_data_to_finer_grid(data, xs, ys, ny, nx, n) ==
    Eval([i \in 0..(ny * n - 1) |-> [j \in 0..(nx * n - 1) |->
        [l \in Labels |->
            IF l = "X" THEN xs[i][j]
            ELSE IF l = "Y" THEN ys[i][j]
            ELSE data[i \div n][j \div n][l]]]])

\* for (l, w) in weights: data[l] *= data[w], one pair after the other
RECURSIVE MultiplyWeights(_, _, _, _)
MultiplyWeights(data, ny, nx, weights) ==
    IF weights = <<>> THEN data
    ELSE LET l == weights[1][1]
             w == weights[1][2]
             next == Eval([i \in 0..(ny - 1) |-> [j \in 0..(nx - 1) |->
                        [data[i][j] EXCEPT ![l] = FMul(data[i][j][l], data[i][j][w])]]])
         IN  MultiplyWeights(next, ny, nx, Tail(weights))

\* the value written to resampled_data[i, j][l] for a declared pair (l, w)
SuperWeighted(bins, l, w) ==
    LET value == SumSeq(Col(bins, l))
        total_weight == SumSeq(Col(bins, w))
    IN  IF ~IsZero(total_weight) THEN FDiv(value, total_weight) ELSE Zero

\* (mutant) an unweighted field summed over the window
SuperCellSummed(old, bins, weights) ==
    [l \in Labels |->
        IF l \in Range(coord_labels) THEN old[l]
        ELSE IF l \in PairLabels(weights)
             THEN SuperWeighted(bins, l, WeightOf(weights, l))
        ELSE SumSeq(Col(bins, l))]

\* the cell written to resampled_data[i, j] from its window `bins`
SuperCell(old, bins, weights) ==
    [l \in Labels |->
        IF l \in Range(coord_labels) THEN old[l]
        ELSE IF l \in PairLabels(weights)
             THEN SuperWeighted(bins, l, WeightOf(weights, l))
        ELSE MeanSeq(Col(bins, l))]

\* _supersample_data_on_grid with a window of factor cells to either side
supersample_data_on_grid_wide(data0, ny, nx, factor, weights) ==
    LET data == MultiplyWeights(data0, ny, nx, weights)
        n == factor
    IN  [i \in 0..(ny - 1) |-> [j \in 0..(nx - 1) |->
            SuperCell(data0[i][j],
                      Slice2(data, ny, nx, Max(0, i - n), i + n + 1,
                             Max(0, j - n), j + n + 1),
                      weights)]]

supersample_data_on_grid(data0, ny, nx, factor, weights) ==
    LET data == MultiplyWeights(data0, ny, nx, weights)
        n == factor - 1
    IN  [i \in 0..(ny - 1) |-> [j \in 0..(nx - 1) |->
            SuperCell(data0[i][j],
                      Slice2(data, ny, nx, Max(0, i - n), i + n + 1,
                             Max(0, j - n), j + n + 1),
                      weights)]]

\* supersample_flow_data handing back the object it was given
supersample_flow_data_same_object(f, factor, weights) == f

\* The arrays in storage h after the in-place operations of
\* supersample_flow_data: flow.sort() orders in place the array of the object
\* flow.copy() returned; data[l] *= data[w] writes the array that
\* _transfer_data_to_finer_grid created, in storage of no caller-held object
supersample_in_place(h, f, factor) ==
    IF factor = None \/ factor = <<1>> THEN h
    ELSE LET copy == FlowCopy(f)
         IN  IF copy.ref = 0 THEN h
             ELSE [h EXCEPT ![copy.ref] = np_sort(@, <<"Y", "X">>)]

\* factor: None, or <<n>> for the integer n
supersample_flow_data(f, factor, weights) ==
    IF factor = None \/ factor = <<1>> THEN FlowCopy(f)
    ELSE
    LET n == factor[1]
        sorted == FlowSort(FlowCopy(f))
        info == get_superscaled_grid_info(sorted, n)
        coords == get_superscaled_grid_coords(info)
        nx == info.shape[1]
        ny == info.shape[2]
        grid_data == np_reshape(sorted.data, ny \div n, nx \div n)
        finer_grid_data == transfer_data_to_finer_grid(
            grid_data, coords[1], coords[2], ny \div n, nx \div n, n)
        resampled_data == supersample_data_on_grid(
            finer_grid_data, ny, nx, n, weights)
    IN  IF Len(sorted.data) # (ny \div n) * (nx \div n) THEN Raise("ValueError")
        ELSE FlowData(Ravel(resampled_data, ny, nx), info)

---------------------------------------------------------------------------
(* strata/dataformats/simple/average.py: average_data *)

\* A record is a dict label -> array; an array object is [ref, val], ref the
\* storage it lives in (0: a new array not yet placed in the heap).
AvgLabels == {"X", "Y", "M", "N", "T", "U", "V"}

Fresh(val) == [ref |-> 0, val |-> val]

FAbs(a) == IF a[1] < 0 THEN FNeg(a) ELSE a

\* np.isclose(a, b, atol=atol, rtol=rtol) for finite values
np_isclose(a, b, atol, rtol) ==
    FLe(FAbs(FSub(a, b)), FAdd(atol, FMul(rtol, FAbs(b))))

\* np.nan_to_num
nan_to_num(a) ==
    IF IsNaN(a) THEN Zero
    ELSE IF a = PosInf THEN FloatMax
    ELSE IF a = NegInf THEN FloatMin
    ELSE a

\* the assertion of init_with_coords: every later record against the first
CoordsMatch(data, atol, rtol) ==
    \A f \in 2..Len(data) : \A l \in {"X", "Y"} :
        \A k \in 1..Len(data[1][l].val) :
            np_isclose(data[1][l].val[k], data[f][l].val[k], atol, rtol)

\* init_with_coords taking the coordinates of the last record
init_with_coords_last(data) == [l \in {"X", "Y"} |-> data[Len(data)][l]]

\* coords = {l: data[0][l]}: the first record's coordinate arrays themselves
init_with_coords(data) == [l \in {"X", "Y"} |-> data[1][l]]

\* np.sum([...], 0): the sum across records, cell by cell
SumFrames(cols) ==
    Eval([k \in 1..Len(cols[1]) |->
             SumSeq([f \in 1..Len(cols) |-> cols[f][k]])])

get_sum_weights(data, w) ==
    SumFrames(Eval([f \in 1..Len(data) |-> data[f][w].val]))

\* get_avg without the division by the number of records
get_avg_sum(data, field) ==
    SumFrames(Eval([f \in 1..Len(data) |-> data[f][field].val]))

get_avg(data, field) ==
    LET cols == [f \in 1..Len(data) |-> data[f][field].val]
    IN  [k \in 1..Len(cols[1]) |->
            MeanSeq([f \in 1..Len(cols) |-> cols[f][k]])]

\* get_weighted_avg without np.nan_to_num
get_weighted_avg_raw(data, field, weight) ==
    LET weighted_sum == SumFrames(Eval([f \in 1..Len(data) |->
                            MulSeq(data[f][field].val, data[f][weight].val)]))
        sum_weights == get_sum_weights(data, weight)
    IN  [k \in 1..Len(weighted_sum) |->
            FDiv(weighted_sum[k], sum_weights[k])]

get_weighted_avg(data, field, weight) ==
    LET weighted_sum == SumFrames(Eval([f \in 1..Len(data) |->
                            MulSeq(data[f][field].val, data[f][weight].val)]))
        sum_weights == get_sum_weights(data, weight)
    IN  [k \in 1..Len(weighted_sum) |->
            nan_to_num(FDiv(weighted_sum[k], sum_weights[k]))]

average_data(data, atol, rtol) ==
    IF data = <<>> THEN [status |-> "empty", rec |-> <<>>]
    ELSE IF ~CoordsMatch(data, atol, rtol)
         THEN [status |-> "ValueError", rec |-> <<>>]
    ELSE LET coords == init_with_coords(data)
         IN  [status |-> "ok",
              rec |-> Eval([l \in AvgLabels |->
                  IF l \in {"X", "Y"} THEN coords[l]
                  ELSE IF l \in {"M", "N"} THEN Fresh(get_avg(data, l))
                  ELSE IF l = "T" THEN Fresh(get_weighted_avg(data, "T", "N"))
                  ELSE Fresh(get_weighted_avg(data, l, "M"))])]

\* droplets/average.py: average_flow_data(flow_maps, weights) for maps on one
\* grid: the declared (field, weight) pairs are averaged by weight, zero where
\* the weights sum to zero, every other field is the mean over the maps; the
\* record returned is built on a grid of its own
average_flow_data(data, weights) ==
    LET mean_of(l) == [k \in 1..Len(data[1][l].val) |->
            MeanSeq([f \in 1..Len(data) |-> data[f][l].val[k]])]
        weighted_of(l, w) ==
            LET weighted_sum == SumFrames(Eval([f \in 1..Len(data) |->
                                    MulSeq(data[f][l].val, data[f][w].val)]))
                sum_weights == get_sum_weights(data, w)
            IN  [k \in 1..Len(weighted_sum) |->
                    IF IsZero(sum_weights[k]) THEN Zero
                    ELSE FDiv(weighted_sum[k], sum_weights[k])]
    IN  [status |-> "ok",
         rec |-> Eval([l \in AvgLabels |->
             IF l \in {"X", "Y"} THEN Fresh(data[1][l].val)
             ELSE IF l \in PairLabels(weights)
                  THEN Fresh(weighted_of(l, WeightOf(weights, l)))
             ELSE Fresh(mean_of(l))])]

---------------------------------------------------------------------------
(* droplets/average.py: get_combined_grid, transfer_data *)

RECURSIVE Concat(_)
Concat(seqs) == IF seqs = <<>> THEN <<>> ELSE seqs[1] \o Concat(Tail(seqs))

MaxSeq(s) == CHOOSE v \in Range(s) : \A u \in Range(s) : FLe(u, v)

\* np.arange(start, stop, step): ceil((stop - start)/step) values from start
ArangeLen(start, stop, step) ==
    LET q == FDiv(FSub(stop, start), step)
    IN  IF q[1] <= 0 THEN 0 ELSE (q[1] + q[2] - 1) \div q[2]

\* (mutant) the range ending one step early, the first value kept
np_arange_open(start, stop, step) ==
    [m \in 1..Max(1, ArangeLen(start, stop, step) - 1) |->
        FAdd(start, FMul(step, Num(m - 1)))]

np_arange(start, stop, step) ==
    [m \in 1..ArangeLen(start, stop, step) |->
        FAdd(start, FMul(step, Num(m - 1)))]

\* get_combined_grid(data, spacing): ValueError for no record; else the axes
\* arange(min, max + dx, dx) of the coordinates of all records, meshed with
\* y the row and x the column, on a zero-initialised array of shape
\* (len(y), len(x)) with every field of the records (here flat, row by row)
get_combined_grid(data, spacing) ==
    IF data = <<>> THEN [status |-> "ValueError", shape |-> <<0, 0>>,
                         grid |-> <<>>]
    ELSE LET all == Concat(data)
             x0 == MinSeq(Col(all, "X"))
             x1 == MaxSeq(Col(all, "X"))
             y0 == MinSeq(Col(all, "Y"))
             y1 == MaxSeq(Col(all, "Y"))
             x == np_arange(x0, FAdd(x1, spacing[1]), spacing[1])
             y == np_arange(y0, FAdd(y1, spacing[2]), spacing[2])
             mesh == np_meshgrid(x, y)
             fields == UNION {DOMAIN all[k] : k \in 1..Len(all)}
         IN  [status |-> "grid", shape |-> <<Len(y), Len(x)>>,
              grid |-> Eval([k \in 1..(Len(y) * Len(x)) |->
                  LET i == (k - 1) \div Len(x)
                      j == (k - 1) % Len(x)
                  IN  [l \in fields |->
                          IF l = "X" THEN mesh[1][i][j]
                          ELSE IF l = "Y" THEN mesh[2][i][j]
                          ELSE Zero]])]

\* (mutant) the block written at the transposed offset
transfer_data_transposed(grid, shape, bins, bshape, offset, spacing) ==
    LET row == offset[2]
        col == offset[1]
        inside(i, j) == /\ row <= i /\ i < row + bshape[1]
                        /\ col <= j /\ j < col + bshape[2]
    IN  IF row + bshape[1] > shape[1] \/ col + bshape[2] > shape[2]
        THEN [status |-> "IndexError", data |-> <<>>]
        ELSE [status |-> "flat",
              data |-> Eval([k \in 1..Len(grid) |->
                  LET i == (k - 1) \div shape[2]
                      j == (k - 1) % shape[2]
                  IN  IF inside(i, j)
                      THEN [l \in DOMAIN grid[k] |->
                              IF l \in Range(coord_labels) THEN grid[k][l]
                              ELSE bins[(i - row) * bshape[2] + (j - col) + 1][l]]
                      ELSE grid[k]])]

\* transfer_data(grid, bins, offset, spacing): a flattened copy of grid (of
\* shape `shape`) with the fields of bins (of shape `bshape`), coordinates
\* excepted, written to rows [row, row + h) and columns [col, col + w); an
\* offset that puts the block outside the grid is an index error
transfer_data(grid, shape, bins, bshape, offset, spacing) ==
    LET row == offset[1]
        col == offset[2]
        inside(i, j) == /\ row <= i /\ i < row + bshape[1]
                        /\ col <= j /\ j < col + bshape[2]
    IN  IF row + bshape[1] > shape[1] \/ col + bshape[2] > shape[2]
        THEN [status |-> "IndexError", data |-> <<>>]
        ELSE [status |-> "flat",
              data |-> Eval([k \in 1..Len(grid) |->
                  LET i == (k - 1) \div shape[2]
                      j == (k - 1) % shape[2]
                  IN  IF inside(i, j)
                      THEN [l \in DOMAIN grid[k] |->
                              IF l \in Range(coord_labels) THEN grid[k][l]
                              ELSE bins[(i - row) * bshape[2] + (j - col) + 1][l]]
                      ELSE grid[k]])]

---------------------------------------------------------------------------
(* strata/dataformats/simple/average.py: combine_bins *)

\* np.linspace(x0, x0 + dx*(num - 1), num)
np_linspace(x0, dx, num) ==
    [m \in 1..num |-> FAdd(x0, FMul(dx, Num(m - 1)))]

\* (mutant) the window taken with the factors of the two axes exchanged
strata_window_exchanged(a, shape, nx, ny, i, j) ==
    Slice2(np_reshape(a, shape[1], shape[2]), shape[1], shape[2],
           ny * i, ny * (i + 1), nx * j, nx * (j + 1))

\* ds[nx*i:nx*(i+1), ny*j:ny*(j+1)] of ds = a.reshape(info['shape'])
strata_window(a, shape, nx, ny, i, j) ==
    Slice2(np_reshape(a, shape[1], shape[2]), shape[1], shape[2],
           nx * i, nx * (i + 1), ny * j, ny * (j + 1))

\* new_data[label][i, j]: the sum of the window for a label without weight,
\* else np.average, 0.0 on ZeroDivisionError
strata_combined(data, info, nx, ny, lw, i, j) ==
    LET ds == strata_window(data[lw[1]].val, info.shape, nx, ny, i, j)
    IN  IF Len(lw) = 1 THEN SumSeq(ds)
        ELSE LET ws == strata_window(data[lw[2]].val, info.shape, nx, ny, i, j)
                 avg == np_average(ds, ws)
             IN  IF avg.err THEN Zero ELSE avg.val

\* labels_and_weights: <<label>> stands for (label, None)
labels_and_weights ==
    << <<"N">>, <<"M">>, <<"T", "N">>, <<"U", "M">>, <<"V", "M">> >>

\* combine_bins(data, info, nx, ny): (new_data, new_info); arrays are flat with
\* the x index first, as reshape(info['shape']) and indexing='ij' have it
strata_combine_bins(data, info, nx, ny) ==
    LET shape == <<info.shape[1] \div nx, info.shape[2] \div ny>>
        spacing == <<FMul(info.spacing[1], Num(nx)),
                     FMul(info.spacing[2], Num(ny))>>
        num == <<nx, ny>>
        origin == [k \in 1..2 |->
            FAdd(info.origin[k],
                 FMul(FMul(Half, info.spacing[k]), Num(num[k] - 1)))]
        num_bins == shape[1] * shape[2]
        x == np_linspace(origin[1], spacing[1], shape[1])
        y == np_linspace(origin[2], spacing[2], shape[2])
        row(k) == (k - 1) \div shape[2]
        col(k) == (k - 1) % shape[2]
        pair_of(l) ==
            labels_and_weights[CHOOSE m \in 1..Len(labels_and_weights) :
                                   labels_and_weights[m][1] = l]
    IN  [new_info |-> [status |-> "info", ref |-> 0, data |-> <<>>,
                       shape |-> shape, spacing |-> spacing,
                       origin |-> origin, num_bins |-> num_bins],
         new_data |-> Eval([l \in AvgLabels |->
             IF l = "X" THEN Fresh([k \in 1..num_bins |-> x[row(k) + 1]])
             ELSE IF l = "Y" THEN Fresh([k \in 1..num_bins |-> y[col(k) + 1]])
             ELSE Fresh([k \in 1..num_bins |->
                     strata_combined(data, info, nx, ny, pair_of(l),
                                     row(k), col(k))])])]

---------------------------------------------------------------------------
(* Inputs *)

\* The (M, U, N) values a cell of a flow map is drawn from: mass, velocity
\* and number
CellKinds == { <<Num(0), Num(1), Num(1)>>, <<Num(1), Num(2), Num(2)>>,
               <<Num(-1), Num(1), Num(1)>> }

\* Grid geometries: origin and spacing
Geometries == { [origin |-> <<Half, Num(-1)>>, spacing |-> <<Half, Num(2)>>] }

\* Orders in which the cells of a map are stored: y-major or x-major
Orders == {"yx", "xy"}

\* Arguments drawn for the calls
WeightChoices == { <<>>, << <<"U", "M">> >>,
                   << <<"U", "M">>, <<"M", "N">> >> }
LimChoices == { << <<None, None>>, <<None, None>> >>,
                << <<Num(1), None>>, <<None, Num(1)>> >> }
TranslateLabels == {"X", "U", "nolabel"}
TranslateBy == { Num(1), <<-1, 2>> }
CutChoices == LimChoices \cup
              { << <<Num(1), <<3, 2>> >>, <<None, None>> >>,
                << <<None, Half>>, <<Num(1), None>> >> }
Tolerances == { << <<1, 1000>>, <<1, 100000>> >>, <<Zero, Zero>> }
FlowWeightChoices == { <<>>, << <<"U", "M">> >>,
                       << <<"U", "M">>, <<"T", "N">> >> }

\* the structured grid nx x ny of a geometry, cell values vals, raster order
GridCell(geom, nx, vals, k) ==
    LET i == (k - 1) \div nx
        j == (k - 1) % nx
    IN  [X |-> FAdd(geom.origin[1], FMul(geom.spacing[1], Num(j))),
         Y |-> FAdd(geom.origin[2], FMul(geom.spacing[2], Num(i))),
         M |-> vals[k][1],
         N |-> vals[k][3],
         U |-> vals[k][2]]

MakeGrid(geom, nx, ny, vals, order) ==
    LET raster == [k \in 1..(nx * ny) |-> GridCell(geom, nx, vals, k)]
    IN  IF order = "yx" THEN raster ELSE np_sort(raster, <<"X", "Y">>)

\* state objects carry no array: the array is heap[ref]
Strip(f, ref) ==
    [status |-> f.status, ref |-> ref, shape |-> f.shape,
     spacing |-> f.spacing, origin |-> f.origin, num_bins |-> f.num_bins]

Load(h, f) ==
    [status |-> f.status, ref |-> f.ref, data |-> h[f.ref], shape |-> f.shape,
     spacing |-> f.spacing, origin |-> f.origin, num_bins |-> f.num_bins]

NoFlow == Strip(Raise("none"), 0)
NoFiles == <<>>
NoGen == [kind |-> "none"]
NoMean == [status |-> "none", rec |-> <<>>]
NoCall == [op |-> "none"]

NewRef(h) == Cardinality(DOMAIN h) + 1

InitResample ==
    \E nx \in 1..MaxBins, ny \in 1..MaxBins :
        /\ nx * ny <= MaxBins
        /\ \E geom \in Geometries, order \in Orders,
              vals \in [1..(nx * ny) -> CellKinds] :
            /\ heap = (1 :> MakeGrid(geom, nx, ny, vals, order))
            /\ flow = [status |-> "ok", ref |-> 1, shape |-> <<nx, ny>>,
                       spacing |-> geom.spacing, origin |-> geom.origin,
                       num_bins |-> nx * ny]
        /\ before = heap
        /\ frames = <<>>
        /\ call = NoCall
        /\ result = NoFlow
        /\ mean = NoMean
        /\ back = NoFlow
        /\ pc = "input"
        /\ disk = NoFiles
        /\ gen = NoGen
        /\ yielded = <<>>

\* The maps handed to average_data have two cells.  Coordinates of a map
\* are BaseCoords moved by one of Shifts: not at all, or by the default
\* absolute tolerance up or down (within tolerance of the unmoved map).
BaseCoords == [X |-> <<Num(0), Num(1)>>, Y |-> <<Num(2), Num(2)>>]
Shifts == { <<Zero, Zero>>, << <<1, 1000>>, Zero >>, << <<-1, 1000>>, Zero >>,
            << Zero, <<1, 1000>> >> }

\* The field values a map is drawn from, per cell
FrameKinds == {
    [M |-> <<Num(0), Num(1)>>, N |-> <<Num(0), Num(2)>>,
     T |-> <<Num(3), Num(1)>>, U |-> <<Num(1), Num(2)>>,
     V |-> <<Num(2), Num(0)>>],
    [M |-> <<Num(0), Num(-1)>>, N |-> <<Num(0), Num(1)>>,
     T |-> <<PosInf, Num(2)>>, U |-> <<NaN, Num(1)>>,
     V |-> <<Num(5), Num(-3)>>],
    [M |-> <<Num(2), Num(1)>>, N |-> <<Num(3), Num(-1)>>,
     T |-> <<Num(1), Num(4)>>, U |-> <<Num(1), Num(3)>>,
     V |-> <<Num(3), Num(1)>>] }

\* the arrays of map f (label by label), and where map f keeps them
FrameLabels == <<"X", "Y", "M", "N", "T", "U", "V">>
LabelIndex(l) == CHOOSE k \in 1..Len(FrameLabels) : FrameLabels[k] = l
FrameRef(f, l) == (f - 1) * Len(FrameLabels) + LabelIndex(l)

FrameArray(kind, shift, l) ==
    IF l = "X" THEN [k \in 1..2 |-> FAdd(BaseCoords.X[k], shift[1])]
    ELSE IF l = "Y" THEN [k \in 1..2 |-> FAdd(BaseCoords.Y[k], shift[2])]
    ELSE kind[l]

InitAverage ==
    \E n \in 0..MaxFrames :
        \E kinds \in [1..n -> FrameKinds], shifts \in [1..n -> Shifts] :
            /\ heap = [r \in 1..(n * Len(FrameLabels)) |->
                    LET f == ((r - 1) \div Len(FrameLabels)) + 1
                        l == FrameLabels[((r - 1) % Len(FrameLabels)) + 1]
                    IN  FrameArray(kinds[f], shifts[f], l)]
            /\ frames = [f \in 1..n |-> [l \in AvgLabels |-> FrameRef(f, l)]]
            /\ before = heap
            /\ flow = NoFlow
            /\ call = NoCall
            /\ result = NoFlow
            /\ mean = NoMean
            /\ back = NoFlow
            /\ pc = "input"
            /\ disk = NoFiles
            /\ gen = NoGen
            /\ yielded = <<>>

\* The (M, N, T, U, V) values a cell of a strata map is drawn from
StrataCellKinds == {
    [M |-> Num(0), N |-> Num(0), T |-> Num(3), U |-> Num(1), V |-> Num(2)],
    [M |-> Num(1), N |-> Num(2), T |-> Num(1), U |-> Num(2), V |-> Num(0)],
    [M |-> Num(-1), N |-> Num(1), T |-> Num(2), U |-> Num(1), V |-> Num(-3)] }

\* array l of a strata map on the grid nx x ny of a geometry: flat, the x
\* index first
StrataArray(geom, nx, ny, vals, l) ==
    [k \in 1..(nx * ny) |->
        IF l = "X" THEN FAdd(geom.origin[1],
                             FMul(geom.spacing[1], Num((k - 1) \div ny)))
        ELSE IF l = "Y" THEN FAdd(geom.origin[2],
                                  FMul(geom.spacing[2], Num((k - 1) % ny)))
        ELSE vals[k][l]]

InitCombine ==
    \E nx \in 1..MaxBins, ny \in 1..MaxBins :
        /\ nx * ny <= MaxBins
        /\ \E geom \in Geometries, vals \in [1..(nx * ny) -> StrataCellKinds] :
            /\ heap = [r \in 1..Len(FrameLabels) |->
                           StrataArray(geom, nx, ny, vals, FrameLabels[r])]
            /\ flow = [status |-> "info", ref |-> 0, shape |-> <<nx, ny>>,
                       spacing |-> geom.spacing, origin |-> geom.origin,
                       num_bins |-> nx * ny]
        /\ frames = <<[l \in AvgLabels |-> FrameRef(1, l)]>>
        /\ before = heap
        /\ call = NoCall
        /\ result = NoFlow
        /\ mean = NoMean
        /\ back = NoFlow
        /\ pc = "input"
        /\ disk = NoFiles
        /\ gen = NoGen
        /\ yielded = <<>>

---------------------------------------------------------------------------
\* The records handed to get_combined_grid: a 2x2 grid at (0, 0), a 2x2
\* grid at (2, 2), two samples off the unit grid, and one sample with a field
\* M of its own.  Field values are not zero.
SampleAt(x, y) == [X |-> x, Y |-> y, C |-> Num(5)]
UnitGrid(o) == << SampleAt(Num(o), Num(o)), SampleAt(Num(o + 1), Num(o)),
                  SampleAt(Num(o), Num(o + 1)), SampleAt(Num(o + 1), Num(o + 1)) >>
RecordChoices == { UnitGrid(0), UnitGrid(2),
                   << SampleAt(Zero, Zero), SampleAt(Half, Num(1)) >>,
                   << [X |-> Num(1), Y |-> Num(2), M |-> Num(7)] >> }
Spacings == { <<Num(1), Num(1)>>, <<Half, Num(1)>> }

\* the block handed to transfer_data: shape (h, w), coordinates of its own,
\* every field of cell k set to k
BlockCell(fields, k) ==
    [l \in fields |-> IF l \in Range(coord_labels) THEN Num(-1) ELSE Num(k)]
MakeBlock(fields, h, w) == [k \in 1..(h * w) |-> BlockCell(fields, k)]

InitGrid ==
    \E n \in 0..MaxRecords :
        \E recs \in [1..n -> RecordChoices] :
            /\ heap = [r \in 1..n |-> recs[r]]
            /\ frames = [r \in 1..n |-> r]
            /\ before = heap
            /\ flow = Strip(Raise("records"), 0)
            /\ call = NoCall
            /\ result = NoFlow
            /\ mean = NoMean
            /\ back = NoFlow
            /\ pc = "input"
            /\ disk = NoFiles
            /\ gen = NoGen
            /\ yielded = <<>>

(* Calls *)

\* the returned object enters the caller's hands: an array of its own gets
\* new storage, an array shared with an existing object keeps that storage
ReturnTo(h, r) ==
    IF r.status = "ok" /\ r.ref = 0
    THEN /\ heap' = h @@ (NewRef(h) :> r.data)
         /\ result' = Strip(r, NewRef(h))
    ELSE /\ heap' = h
         /\ result' = Strip(r, r.ref)

Return(r) == ReturnTo(heap, r)

Downsample(num_combine, weights, lims) ==
    /\ pc = "input"
    /\ flow.status = "ok"
    /\ \E r \in {downsample_flow_data(Load(heap, flow), num_combine, weights,
                                        lims[1], lims[2])} : Return(r)
    /\ call' = [op |-> "downsample", num_combine |-> num_combine,
                weights |-> weights, xlim |-> lims[1], ylim |-> lims[2]]
    /\ pc' = "done"
    /\ UNCHANGED <<before, flow, frames, mean, back, disk, gen, yielded>>

Supersample(factor, weights) ==
    /\ pc = "input"
    /\ flow.status = "ok"
    /\ factor # None => flow.num_bins * factor[1] * factor[1] <= MaxFine
    /\ \E r \in {supersample_flow_data(Load(heap, flow), factor, weights)} :
            ReturnTo(supersample_in_place(heap, Load(heap, flow), factor), r)
    /\ call' = [op |-> "supersample", factor |-> factor, weights |-> weights]
    /\ pc' = "done"
    /\ UNCHANGED <<before, flow, frames, mean, back, disk, gen, yielded>>

\* the system cut to the limits
Cut(lims) ==
    /\ pc = "input"
    /\ flow.status = "ok"
    /\ \E r \in {cut_system_limits(Load(heap, flow), lims[1], lims[2])} :
            Return(r)
    /\ call' = [op |-> "cut", xlim |-> lims[1], ylim |-> lims[2]]
    /\ pc' = "done"
    /\ UNCHANGED <<before, flow, frames, mean, back, disk, gen, yielded>>

\* flow.translate(label, t): an object that keeps the storage of the record
\* it was called on has written its array there
Translate(label, t) ==
    /\ pc = "input"
    /\ flow.status = "ok"
    /\ \E r \in {translate(Load(heap, flow), label, t)} :
          IF r.status = "ok" /\ r.ref # 0
          THEN /\ heap' = [heap EXCEPT ![r.ref] = r.data]
               /\ result' = Strip(r, r.ref)
          ELSE Return(r)
    /\ call' = [op |-> "translate", label |-> label, t |-> t]
    /\ pc' = "done"
    /\ UNCHANGED <<before, flow, frames, mean, back, disk, gen, yielded>>

\* the caller changes the first element of the array supersample_flow_data
\* returned, in place
Poke ==
    /\ pc = "done"
    /\ call.op = "supersample"
    /\ result.status = "ok"
    /\ heap[result.ref] # <<>>
    /\ heap' = [heap EXCEPT ![result.ref][1].M = FAdd(@, Num(1))]
    /\ pc' = "poked"
    /\ UNCHANGED <<before, flow, frames, call, result, mean, back, disk, gen, yielded>>

\* the caller hands the record supersample_flow_data returned (to a call
\* without weights) to downsample_flow_data, combining as many bins as each
\* was split into
RoundTrip ==
    /\ pc = "done"
    /\ call.op = "supersample"
    /\ call.factor # None
    /\ call.weights = <<>>
    /\ result.status = "ok"
    /\ \E r \in {downsample_flow_data(Load(heap, result),
                        <<call.factor[1], call.factor[1]>>, call.weights,
                        <<None, None>>, <<None, None>>)} :
          IF r.status = "ok"
          THEN /\ heap' = heap @@ (NewRef(heap) :> r.data)
               /\ back' = Strip(r, NewRef(heap))
          ELSE /\ heap' = heap
               /\ back' = Strip(r, 0)
    /\ pc' = "back"
    /\ UNCHANGED <<before, flow, frames, call, result, mean, disk, gen, yielded>>

\* the arrays of the records as average_data receives them
LoadFrames(h, fs) ==
    Eval([f \in 1..Len(fs) |->
        [l \in AvgLabels |-> [ref |-> fs[f][l], val |-> h[fs[f][l]]]]])

\* the new arrays of a returned record get storage after the existing ones
PlaceRef(h, rec, l) ==
    IF rec[l].ref # 0 THEN rec[l].ref
    ELSE Cardinality(DOMAIN h)
         + Cardinality({k \in 1..LabelIndex(l) : rec[FrameLabels[k]].ref = 0})

\* the returned record enters the caller's hands
ReturnMean(r) ==
    IF r.status = "ok"
    THEN /\ mean' = [status |-> "ok",
                     rec |-> [l \in AvgLabels |-> PlaceRef(heap, r.rec, l)]]
         /\ heap' = [ref \in DOMAIN heap \cup
                            {PlaceRef(heap, r.rec, l) : l \in AvgLabels} |->
                        IF ref \in DOMAIN heap THEN heap[ref]
                        ELSE r.rec[CHOOSE l \in AvgLabels :
                                     PlaceRef(heap, r.rec, l) = ref].val]
    ELSE /\ mean' = [status |-> r.status, rec |-> <<>>]
         /\ heap' = heap

\* combine_bins(data, info, nx, ny) on a strata map and its info
Combine(nx, ny) ==
    /\ pc = "input"
    /\ flow.status = "info"
    /\ \E r \in {strata_combine_bins(LoadFrames(heap, frames)[1], flow, nx, ny)} :
          /\ ReturnMean([status |-> "ok", rec |-> r.new_data])
          /\ result' = Strip(r.new_info, 0)
    /\ call' = [op |-> "combine", nx |-> nx, ny |-> ny]
    /\ pc' = "done"
    /\ UNCHANGED <<before, flow, frames, back, disk, gen, yielded>>

\* the strata map as a FlowData record: cell k holds element k of every
\* array.  The record of the model has the data fields M, N, U; `val` is put
\* under U, its weight `wt` under M and the other weight under N.
StrataFlow(h, val, wt, other) ==
    [status |-> "ok", ref |-> 0,
     data |-> Eval([k \in 1..Len(h[frames[1]["X"]]) |->
                 [X |-> h[frames[1]["X"]][k], Y |-> h[frames[1]["Y"]][k],
                  M |-> h[frames[1][wt]][k], N |-> h[frames[1][other]][k],
                  U |-> h[frames[1][val]][k]]]),
     shape |-> flow.shape, spacing |-> flow.spacing, origin |-> flow.origin,
     num_bins |-> flow.num_bins]

\* downsample_flow_data(flow, (nx, ny), weights=[(T, N), (U, M), (V, M)]) on
\* that record.  The function treats every (label, weight) pair alike, so
\* the pair (val, wt) is computed as the pair (U, M) of the model's record and
\* the results are put together under their own labels.
downsample_strata(h, nx, ny) ==
    LET none == <<None, None>>
        w == << <<"U", "M">> >>
        rU == downsample_flow_data(StrataFlow(h, "U", "M", "N"), <<nx, ny>>, w, none, none)
        rT == downsample_flow_data(StrataFlow(h, "T", "N", "M"), <<nx, ny>>, w, none, none)
        rV == downsample_flow_data(StrataFlow(h, "V", "M", "N"), <<nx, ny>>, w, none, none)
    IN  IF rU.status # "ok" THEN rU
        ELSE [rU EXCEPT !.data = Eval([k \in 1..Len(rU.data) |->
                 [X |-> rU.data[k].X, Y |-> rU.data[k].Y,
                  M |-> rU.data[k].M, N |-> rU.data[k].N,
                  T |-> rT.data[k].U, U |-> rU.data[k].U,
                  V |-> rV.data[k].U]])]

\* the caller of combine_bins hands the same map to downsample_flow_data
DownsampleSame ==
    /\ pc = "done"
    /\ call.op = "combine"
    /\ \E r \in {downsample_strata(heap, call.nx, call.ny)} :
          IF r.status = "ok"
          THEN /\ heap' = heap @@ (NewRef(heap) :> r.data)
               /\ back' = Strip(r, NewRef(heap))
          ELSE /\ heap' = heap
               /\ back' = Strip(r, 0)
    /\ pc' = "both"
    /\ UNCHANGED <<before, flow, frames, call, result, mean, disk, gen,
                   yielded>>

NextCombine ==
    \/ \E nx \in 1..MaxFactor, ny \in 1..MaxFactor : Combine(nx, ny)
    \/ DownsampleSame

\* (mutant) the array built so far handed out when the call fails
GetCombinedGridPartial(spacing) ==
    /\ pc = "input"
    /\ flow.status = "records"
    /\ \E r \in {get_combined_grid([f \in 1..Len(frames) |-> heap[frames[f]]],
                                     spacing)} :
          IF r.status = "grid"
          THEN /\ heap' = heap @@ (NewRef(heap) :> r.grid)
               /\ result' = [status |-> "grid", ref |-> NewRef(heap),
                             shape |-> r.shape, spacing |-> spacing,
                             origin |-> <<r.grid[1].X, r.grid[1].Y>>,
                             num_bins |-> Len(r.grid)]
          ELSE /\ heap' = heap @@ (NewRef(heap) :> r.grid)
               /\ result' = Strip(Raise(r.status), NewRef(heap))
    /\ call' = [op |-> "grid", spacing |-> spacing]
    /\ pc' = "done"
    /\ UNCHANGED <<before, flow, frames, mean, back, disk, gen, yielded>>

\* get_combined_grid on the records
GetCombinedGrid(spacing) ==
    /\ pc = "input"
    /\ flow.status = "records"
    /\ \E r \in {get_combined_grid([f \in 1..Len(frames) |-> heap[frames[f]]],
                                     spacing)} :
          IF r.status = "grid"
          THEN /\ heap' = heap @@ (NewRef(heap) :> r.grid)
               /\ result' = [status |-> "grid", ref |-> NewRef(heap),
                             shape |-> r.shape, spacing |-> spacing,
                             origin |-> <<r.grid[1].X, r.grid[1].Y>>,
                             num_bins |-> Len(r.grid)]
          ELSE /\ heap' = heap
               /\ result' = Strip(Raise(r.status), 0)
    /\ call' = [op |-> "grid", spacing |-> spacing]
    /\ pc' = "done"
    /\ UNCHANGED <<before, flow, frames, mean, back, disk, gen, yielded>>

\* transfer_data of a block into the combined grid, and of the same block
\* into the grid that came back (reshaped to the shape of the combined grid)
TransferData(h, w, offset) ==
    /\ flow.status = "records"
    /\ result.status = "grid"
    /\ \/ pc = "done" /\ pc' = "back"
       \/ pc = "back" /\ back.status = "flat" /\ pc' = "again"
             /\ call.bshape = <<h, w>>
    /\ LET dest == IF pc = "done" THEN result.ref ELSE back.ref
           bins == MakeBlock(DOMAIN heap[dest][1], h, w)
           b == IF pc = "done" THEN NewRef(heap) ELSE call.bins
           h1 == IF pc = "done" THEN heap @@ (b :> bins) ELSE heap
       IN  \E r \in {transfer_data(heap[dest], result.shape, h1[b], <<h, w>>,
                                    offset, result.spacing)} :
             /\ IF r.status = "flat"
                THEN /\ heap' = h1 @@ (NewRef(h1) :> r.data)
                     /\ back' = [status |-> "flat", ref |-> NewRef(h1),
                                 shape |-> <<Len(r.data)>>,
                                 spacing |-> result.spacing,
                                 origin |-> result.origin,
                                 num_bins |-> Len(r.data)]
                ELSE /\ heap' = h1
                     /\ back' = Strip(Raise(r.status), 0)
             /\ call' = [op |-> "transfer", dest |-> dest, bins |-> b,
                         bshape |-> <<h, w>>, offset |-> offset]
    /\ UNCHANGED <<before, flow, frames, result, mean, disk, gen, yielded>>

NextGrid ==
    \/ \E spacing \in Spacings : GetCombinedGrid(spacing)
    \/ \E h \in 1..MaxBlock, w \in 1..MaxBlock,
          row \in 0..1, col \in 0..1 : TransferData(h, w, <<row, col>>)

SpecGrid == InitGrid /\ [][NextGrid]_vars

\* (mutant) the second call is made without the weights
DownsampleAgainUnweighted(num_combine) ==
    /\ pc = "done"
    /\ call.op = "downsample"
    /\ call.xlim = <<None, None>> /\ call.ylim = <<None, None>>
    /\ result.status = "ok"
    /\ \E r \in {downsample_flow_data(Load(heap, result), num_combine,
                        <<>>, <<None, None>>, <<None, None>>)} :
          IF r.status = "ok"
          THEN /\ heap' = heap @@ (NewRef(heap) :> r.data)
               /\ back' = Strip(r, NewRef(heap))
          ELSE /\ heap' = heap
               /\ back' = Strip(r, 0)
    /\ call' = [op |-> "downsample twice", num_combine |-> call.num_combine,
                weights |-> call.weights, xlim |-> call.xlim,
                ylim |-> call.ylim, again |-> num_combine]
    /\ pc' = "twice"
    /\ UNCHANGED <<before, flow, frames, result, mean, disk, gen, yielded>>

\* the caller hands the record downsample_flow_data returned (to a call
\* without limits) to downsample_flow_data again, with the same weights
DownsampleAgain(num_combine) ==
    /\ pc = "done"
    /\ call.op = "downsample"
    /\ call.xlim = <<None, None>> /\ call.ylim = <<None, None>>
    /\ result.status = "ok"
    /\ \E r \in {downsample_flow_data(Load(heap, result), num_combine,
                        call.weights, <<None, None>>, <<None, None>>)} :
          IF r.status = "ok"
          THEN /\ heap' = heap @@ (NewRef(heap) :> r.data)
               /\ back' = Strip(r, NewRef(heap))
          ELSE /\ heap' = heap
               /\ back' = Strip(r, 0)
    /\ call' = [op |-> "downsample twice", num_combine |-> call.num_combine,
                weights |-> call.weights, xlim |-> call.xlim,
                ylim |-> call.ylim, again |-> num_combine]
    /\ pc' = "twice"
    /\ UNCHANGED <<before, flow, frames, result, mean, disk, gen, yielded>>

NextDownsample ==
    \E fx \in 1..MaxFactor, fy \in 1..MaxFactor, weights \in WeightChoices,
       lims \in LimChoices : Downsample(<<fx, fy>>, weights, lims)

NextCompose ==
    \/ NextDownsample
    \/ \E fx \in 1..MaxFactor, fy \in 1..MaxFactor : DownsampleAgain(<<fx, fy>>)

SpecCompose == InitResample /\ [][NextCompose]_vars

NextResample ==
    \/ NextDownsample
    \/ \E factor \in {None} \cup {<<n>> : n \in 1..MaxFactor},
          weights \in WeightChoices :
            Supersample(factor, weights)
    \/ \E lims \in CutChoices : Cut(lims)
    \/ \E label \in TranslateLabels, t \in TranslateBy : Translate(label, t)
    \/ Poke
    \/ RoundTrip
    \/ NextCombine

SpecResample == (InitResample \/ InitCombine) /\ [][NextResample]_vars

Average(atol, rtol) ==
    /\ pc = "input"
    /\ flow.status = "none"
    /\ \E r \in {average_data(LoadFrames(heap, frames), atol, rtol)} :
           ReturnMean(r)
    /\ call' = [op |-> "average", atol |-> atol, rtol |-> rtol]
    /\ pc' = "done"
    /\ UNCHANGED <<before, flow, frames, result, back, disk, gen, yielded>>

\* average_flow_data on maps that share one grid
AverageFlow(weights) ==
    /\ pc = "input"
    /\ flow.status = "none"
    /\ frames # <<>>
    /\ CoordsMatch(LoadFrames(heap, frames), Zero, Zero)
    /\ \E r \in {average_flow_data(LoadFrames(heap, frames), weights)} :
           ReturnMean(r)
    /\ call' = [op |-> "average_flow", weights |-> weights]
    /\ pc' = "done"
    /\ UNCHANGED <<before, flow, frames, result, back, disk, gen, yielded>>

\* the caller writes into array l of the record average_data returned
PokeMean(l) ==
    /\ pc = "done"
    /\ call.op = "average"
    /\ mean.status = "ok"
    /\ heap' = [heap EXCEPT ![mean.rec[l]][1] = FAdd(@, Num(1))]
    /\ pc' = "poked"
    /\ UNCHANGED <<before, flow, frames, call, result, mean, back, disk, gen,
                   yielded>>

NextAverage ==
    \/ \E tol \in Tolerances : Average(tol[1], tol[2])
    \/ \E weights \in FlowWeightChoices : AverageFlow(weights)
    \/ \E l \in AvgLabels : PokeMean(l)

SpecAverage == InitAverage /\ [][NextAverage]_vars

---------------------------------------------------------------------------
(* strata/utils.py: names of numbered files and the generators of them *)

\* the decimal digits of a number that is not negative
RECURSIVE Digits(_)
Digits(n) == IF n < 10 THEN <<n>> ELSE Append(Digits(n \div 10), n % 10)

\* the number that a sequence of decimal digits writes
RECURSIVE DigitsValue(_)
DigitsValue(s) ==
    IF s = <<>> THEN 0 ELSE 10 * DigitsValue(SubSeq(s, 1, Len(s) - 1)) + s[Len(s)]

RECURSIVE ZeroPad(_, _)
ZeroPad(s, width) == IF Len(s) >= width THEN s ELSE ZeroPad(<<0>> \o s, width)

\* int(x) of a finite float that is not negative, as '%d' takes it
Trunc(x) == x[1] \div x[2]

\* '%s%05d%s' % (base, num, ext).  A name is kept as its three parts; `backup`
\* is empty for a name of this form and holds the digits of k for the backup
\* name '#name.k#' of it.
FileName(base, num, ext) ==
    [base |-> base, digits |-> ZeroPad(Digits(Trunc(num)), 5), ext |-> ext,
     backup |-> <<>>]

\* os.access(filename, os.F_OK), os.path.exists(path)
Exists(d, name) == name \in DOMAIN d

\* (mutant) the names end one number early
gen_filenames_short(base, num, end, ext) ==
    IF FLt(num, end) THEN <<FileName(base, num, ext)>> ELSE <<>>

\* gen_filenames at number num: the name it yields next, if it yields one
gen_filenames(base, num, end, ext) ==
    IF FLe(num, end) THEN <<FileName(base, num, ext)>> ELSE <<>>

\* list(yield_singles(base, begin, end, ext)): the names yield_singles yields
\* from number num on until it stops
RECURSIVE yield_singles_list(_, _, _, _, _)
yield_singles_list(d, base, num, end, ext) ==
    LET name == gen_filenames(base, num, end, ext)
    IN  IF name # <<>> /\ Exists(d, name[1])
        THEN name \o yield_singles_list(d, base, FAdd(num, Num(1)), end, ext)
        ELSE <<>>

\* one step of yield_singles: g holds its arguments and locals; `out` is what
\* it yields, empty when it stops
yield_singles(d, g) ==
    LET name == gen_filenames(g.base, g.num, g.end, g.ext)
    IN  IF name # <<>> /\ Exists(d, name[1])
        THEN [out |-> name,
              gen |-> [g EXCEPT !.num = FAdd(@, Num(1)), !.files_found = TRUE]]
        ELSE [out |-> <<>>,
              gen |-> [g EXCEPT !.done = TRUE,
                                !.warned = name # <<>> /\ ~g.files_found]]

\* (mutant) a bundle is yielded when any of its files was found
yield_groups_partial(d, g) ==
    LET files == yield_singles_list(d, g.base, g.num, Num(g.group_end), g.ext)
        step == IF g.rolling THEN 1 ELSE g.group
    IN  IF FLe(Num(g.group_end), g.end) /\ Len(files) > 0
        THEN [out |-> <<files>>,
              gen |-> [g EXCEPT !.num = FAdd(@, Num(step)),
                                !.group_end = @ + step]]
        ELSE [out |-> <<>>, gen |-> [g EXCEPT !.done = TRUE]]

\* one step of yield_groups: g.num is its `begin`
yield_groups(d, g) ==
    LET files == yield_singles_list(d, g.base, g.num, Num(g.group_end), g.ext)
        step == IF g.rolling THEN 1 ELSE g.group
    IN  IF FLe(Num(g.group_end), g.end) /\ Len(files) = g.group
        THEN [out |-> <<files>>,
              gen |-> [g EXCEPT !.num = FAdd(@, Num(step)),
                                !.group_end = @ + step]]
        ELSE [out |-> <<>>, gen |-> [g EXCEPT !.done = TRUE]]

\* np.ceil, np.floor of a finite float
np_ceil(x) == Num(-((-x[1]) \div x[2]))
np_floor(x) == Num(x[1] \div x[2])

\* (mutant) the first output number rounded down
begin_out_num_floor(begin, group, rolling) ==
    IF rolling THEN Num(begin) ELSE np_floor(Rat(begin, group))

\* find_groups_to_singles: the number of the first output file
begin_out_num(begin, group, rolling) ==
    IF rolling THEN Num(begin) ELSE np_ceil(Rat(begin, group))

\* one step of find_groups_to_singles: the next bundle of input_gen with the
\* next name of output_gen, which has no end
find_groups_to_singles(d, g) ==
    LET r == yield_groups(d, g)
        o == gen_filenames(g.output, g.out_num, PosInf, g.outext)
    IN  IF r.out = <<>> THEN r
        ELSE [out |-> << <<r.out[1], o[1]>> >>,
              gen |-> [r.gen EXCEPT !.out_num = FAdd(@, Num(1))]]

\* The files there are: any of those numbered 0..MaxFile of one base
Disks ==
    { [name \in {FileName("in_", Num(k), ".dat") : k \in S} |-> 0] :
        S \in SUBSET (0..MaxFile) }
Begins == {0, 1, 2}
Ends == {PosInf} \cup {Num(e) : e \in 1..MaxFile}

\* a generator just made: find_datamap_files(base, begin=, end=, group=,
\* rolling=) or find_groups_to_singles(base, output, group, rolling, begin=,
\* end=, outext=); group is <<>> for None
NewGen(kind, begin, end, group, rolling, outext) ==
    [kind |-> kind, base |-> "in_", output |-> "out_", begin |-> begin,
     end |-> end, ext |-> ".dat", outext |-> outext,
     group |-> IF group = <<>> THEN 0 ELSE group[1], rolling |-> rolling,
     num |-> Num(begin),
     group_end |-> IF group = <<>> THEN 0 ELSE begin + group[1] - 1,
     out_num |-> IF kind = "pairs"
                 THEN begin_out_num(begin, group[1], rolling) ELSE Zero,
     files_found |-> FALSE, warned |-> FALSE, done |-> FALSE]

\* the state with files d and generator g
FilesStart(d, g) ==
    /\ heap = <<>>
    /\ frames = <<>>
    /\ before = heap
    /\ flow = Strip(Raise("files"), 0)
    /\ call = NoCall
    /\ result = NoFlow
    /\ mean = NoMean
    /\ back = NoFlow
    /\ pc = "input"
    /\ disk = d
    /\ yielded = <<>>
    /\ gen = g

InitSingles ==
    \E d \in Disks, begin \in Begins, end \in Ends :
        FilesStart(d, NewGen("singles", begin, end, <<>>, FALSE, ".dat"))

InitFiles ==
    \/ InitSingles
    \/ \E d \in Disks, begin \in Begins, end \in Ends,
          group \in 1..MaxGroup, rolling \in BOOLEAN :
          \/ FilesStart(d, NewGen("groups", begin, end, <<group>>, rolling, ".dat"))
          \/ \E outext \in {".dat", ".avg"} :
                FilesStart(d, NewGen("pairs", begin, end, <<group>>, rolling, outext))

\* next() on the generator
Advance(r) ==
    /\ gen' = r.gen
    /\ yielded' = yielded \o r.out
    /\ UNCHANGED <<heap, before, flow, frames, call, result, mean, back, pc,
                   disk>>

NextSingle ==
    /\ gen.kind = "singles" /\ ~gen.done
    /\ \E r \in {yield_singles(disk, gen)} : Advance(r)

NextGroup ==
    /\ gen.kind = "groups" /\ ~gen.done
    /\ \E r \in {yield_groups(disk, gen)} : Advance(r)

NextPair ==
    /\ gen.kind = "pairs" /\ ~gen.done
    /\ \E r \in {find_groups_to_singles(disk, gen)} : Advance(r)

---------------------------------------------------------------------------
(* strata/utils.py: prepare_path *)

\* os.path.join(directory, '#%s.%d#' % (filename, i))
BackupName(path, i) == [path EXCEPT !.backup = Digits(i)]

\* os.rename(src, dst): dst did not exist
os_rename(d, src, dst) ==
    [n \in (DOMAIN d \ {src}) \cup {dst} |-> IF n = dst THEN d[src] ELSE d[n]]

\* the loop of backup_conflict from number i on: the first backup name at
\* which there is no file
RECURSIVE free_backup(_, _, _)
free_backup(d, path, i) ==
    IF Exists(d, BackupName(path, i)) THEN free_backup(d, path, i + 1)
    ELSE BackupName(path, i)

\* (mutant) the file is always moved to the first backup name
backup_conflict_first(d, path) ==
    IF Exists(d, path) THEN os_rename(d, path, BackupName(path, 1)) ELSE d

\* backup_conflict(path): the file system after it
backup_conflict(d, path) ==
    IF Exists(d, path) THEN os_rename(d, path, free_backup(d, path, 1)) ELSE d

\* the wrapped function: a writer that puts `content` into the file at path
func(d, path, content) ==
    [n \in DOMAIN d \cup {path} |-> IF n = path THEN content ELSE d[n]]

\* The file to write is out_00001.dat.  It may be there already (content 0),
\* and so may any of its backups 1..MaxBackup (backup k with content -k).
WritePath == FileName("out_", Num(1), ".dat")
WriteDisks ==
    { [n \in {BackupName(WritePath, k) : k \in B} \cup
             (IF there THEN {WritePath} ELSE {}) |->
          IF n = WritePath THEN 0 ELSE -DigitsValue(n.backup)] :
        B \in SUBSET (1..MaxBackup), there \in BOOLEAN }

InitWrite ==
    \E d \in WriteDisks :
        FilesStart(d, [kind |-> "write", path |-> WritePath, writes |-> 0,
                       first |-> d, seen |-> d])

\* a call of a function wrapped by prepare_path: the directory is there,
\* backup_conflict runs, then the writer; gen.seen is the file system as the
\* writer found it, the n-th call writes content n
WriteFile ==
    /\ gen.kind = "write"
    /\ gen.writes < MaxWrites
    /\ \E seen \in {backup_conflict(disk, gen.path)} :
          /\ disk' = func(seen, gen.path, gen.writes + 1)
          /\ gen' = [gen EXCEPT !.writes = @ + 1, !.seen = seen]
    /\ UNCHANGED <<heap, before, flow, frames, call, result, mean, back, pc,
                   yielded>>

NextFiles == NextSingle \/ NextGroup \/ NextPair \/ WriteFile

SpecFiles == (InitFiles \/ InitWrite) /\ [][NextFiles]_vars

\* find_datamap_files without group, consumed by a loop that keeps asking
\* for the next value until the generator stops
FairSpecSingles == InitSingles /\ [][NextSingle]_vars /\ WF_vars(NextSingle)

Init ==
    \/ InitResample \/ InitCombine \/ InitAverage \/ InitGrid
    \/ InitFiles \/ InitWrite

Next == NextResample \/ NextCompose \/ NextAverage \/ NextGrid \/ NextFiles

Spec == Init /\ [][Next]_vars

---------------------------------------------------------------------------
(* What the claims speak of, stated on the inputs and outputs alone *)

\* the sum of f[x] over the finite set S
RECURSIVE SetSum(_, _)
SetSum(S, f) ==
    IF S = {} THEN Zero
    ELSE LET x == CHOOSE y \in S : TRUE
         IN  FAdd(f[x], SetSum(S \ {x}, f))

\* the sum of field l over a set of cells
FieldSum(S, l) == SetSum(S, [c \in S |-> c[l]])

InputCells == Range(before[1])

InLim(v, lim) ==
    /\ (lim[1] # None => FLe(lim[1], v))
    /\ (lim[2] # None => FLe(v, lim[2]))

\* the cells of the input inside the limits of a downsample call
CutCells == {c \in InputCells : InLim(c.X, call.xlim) /\ InLim(c.Y, call.ylim)}

\* column and row of a cell in the raster of a set of cells: the number of
\* distinct smaller coordinates on its axis
ColOf(S, c) == Cardinality({d.X : d \in {e \in S : FLt(e.X, c.X)}})
RowOf(S, c) == Cardinality({d.Y : d \in {e \in S : FLt(e.Y, c.Y)}})
NumCols(S) == Cardinality({c.X : c \in S})
NumRows(S) == Cardinality({c.Y : c \in S})

\* the combine window of output cell (i, j): rows [fy*i, fy*(i+1)) and columns
\* [fx*j, fx*(j+1)) of the raster of S
WindowCells(S, i, j) ==
    LET fx == call.num_combine[1]
        fy == call.num_combine[2]
    IN  {c \in S : /\ fx * j <= ColOf(S, c) /\ ColOf(S, c) < fx * (j + 1)
                   /\ fy * i <= RowOf(S, c) /\ RowOf(S, c) < fy * (i + 1)}

Downsampled == pc = "done" /\ call.op = "downsample" /\ result.status = "ok"

Out == heap[result.ref]
OutRow(k) == (k - 1) \div result.shape[1]
OutCol(k) == (k - 1) % result.shape[1]

DataLabels == Labels \ Range(coord_labels)
Unweighted == DataLabels \ PairLabels(call.weights)

\* C1: downsample: every unweighted field of every output cell (i, j) is the
\* sum of the input over rows [fy*i, fy*(i+1)) and columns [fx*j, fx*(j+1))
\* of the input's (y, x) raster, windows starting at index (0, 0)
C1_WindowSum ==
    Downsampled =>
        \A k \in 1..Len(Out) : \A l \in Unweighted :
            Out[k][l] = FieldSum(WindowCells(CutCells, OutRow(k), OutCol(k)), l)

C1_Witness ==
    /\ Downsampled
    /\ call.num_combine = <<2, 1>>
    /\ flow.shape = <<2, 2>>
    /\ Len(Out) = 2
    /\ Out[1].M = Num(1)
    /\ Out[2].M = Num(-2)

\* sums over the combine window of output cell k for a pair (l, w)
WindowWeight(k, w) == FieldSum(WindowCells(CutCells, OutRow(k), OutCol(k)), w)
WindowMoment(k, l, w) ==
    LET W == WindowCells(CutCells, OutRow(k), OutCol(k))
    IN  SetSum(W, [c \in W |-> FMul(c[l], c[w])])

\* C2: downsample: for every declared pair (field, weight) and every output
\* cell, the field is sum(value*weight)/sum(weight) over the cell's combine
\* window, and exactly 0 when the weights of the window sum to zero
C2_WeightedAverage ==
    Downsampled =>
        \A k \in 1..Len(Out) : \A p \in Range(call.weights) :
            IF IsZero(WindowWeight(k, p[2]))
            THEN Out[k][p[1]] = Zero
            ELSE FMul(Out[k][p[1]], WindowWeight(k, p[2]))
                     = WindowMoment(k, p[1], p[2])

C2_Witness ==
    /\ Downsampled
    /\ call.weights = << <<"U", "M">> >>
    /\ Len(Out) = 2
    /\ IsZero(WindowWeight(1, "M"))
    /\ ~IsZero(WindowMoment(1, "U", "M"))
    /\ Out[1].U = Zero
    /\ WindowWeight(2, "M") = Num(1)
    /\ FieldSum(WindowCells(CutCells, OutRow(2), OutCol(2)), "U") = Num(3)
    /\ Out[2].U = Num(2)

\* C3: downsample by (fx, fy) of a grid of shape (nx, ny), spacing (dx, dy):
\* shape (nx div fx, ny div fy), spacing (dx*fx, dy*fy), num_bins the product
\* of the new shape, and num_bins entries in every field
C3_DownsampledGrid ==
    Downsampled =>
        LET nx == NumCols(CutCells)
            ny == NumRows(CutCells)
            fx == call.num_combine[1]
            fy == call.num_combine[2]
        IN  /\ (call.xlim = <<None, None>> /\ call.ylim = <<None, None>>
                    => nx = flow.shape[1] /\ ny = flow.shape[2])
            /\ result.shape = <<nx \div fx, ny \div fy>>
            /\ result.spacing = <<FMul(flow.spacing[1], Num(fx)),
                                  FMul(flow.spacing[2], Num(fy))>>
            /\ result.num_bins = (nx \div fx) * (ny \div fy)
            /\ Len(Out) = result.num_bins
            /\ \A k \in 1..Len(Out) : DOMAIN Out[k] = Labels

C3_Witness ==
    /\ Downsampled
    /\ flow.shape = <<3, 1>>
    /\ call.num_combine = <<2, 1>>
    /\ call.xlim = <<None, None>>
    /\ result.shape = <<1, 1>>
    /\ result.spacing = <<Num(1), Num(2)>>
    /\ Len(Out) = 1

\* the cells of the cut input that fill a complete combine window
Retained ==
    LET fx == call.num_combine[1]
        fy == call.num_combine[2]
    IN  {c \in CutCells :
            /\ ColOf(CutCells, c) < fx * (NumCols(CutCells) \div fx)
            /\ RowOf(CutCells, c) < fy * (NumRows(CutCells) \div fy)}

\* C4 as claimed: downsample conserves the sum of every unweighted field over
\* all cells of the (cut) input, for every shape and every num_combine
C4_SumConservedAlways ==
    Downsampled =>
        \A l \in Unweighted : SumSeq(Col(Out, l)) = FieldSum(CutCells, l)

\* C4 as amended: the sum of every unweighted field over the output equals
\* its sum over the input cells that fill complete combine windows: over all
\* cells of the (cut) input when fx divides nx and fy divides ny
C4_SumConservedRetained ==
    Downsampled =>
        \A l \in Unweighted :
            /\ SumSeq(Col(Out, l)) = FieldSum(Retained, l)
            /\ (/\ NumCols(CutCells) % call.num_combine[1] = 0
                /\ NumRows(CutCells) % call.num_combine[2] = 0)
                => SumSeq(Col(Out, l)) = FieldSum(CutCells, l)

C4_Witness ==
    /\ Downsampled
    /\ flow.shape = <<3, 1>>
    /\ call.num_combine = <<2, 1>>
    /\ call.xlim = <<None, None>>
    /\ FieldSum(CutCells, "M") = Num(3)
    /\ SumSeq(Col(Out, "M")) = Num(2)

---------------------------------------------------------------------------
(* Frame averaging, stated on the records handed over and the one returned *)

Averaged == pc = "done" /\ call.op = "average" /\ mean.status = "ok"

\* array l of the f-th record handed over, and array l of the record returned
InFrame(f, l) == before[frames[f][l]]
MeanOf(l) == heap[mean.rec[l]]

NumFrames == Len(frames)
Cells == 1..Len(MeanOf("X"))

\* the pairs (field, weight) average_data averages by weight
AvgPairs == { <<"U", "M">>, <<"V", "M">>, <<"T", "N">> }

\* per cell: the sum of a field, and of field*weight, across the records
FrameSum(l, k) == SumSeq([f \in 1..NumFrames |-> InFrame(f, l)[k]])
FrameMoment(l, w, k) ==
    SumSeq([f \in 1..NumFrames |-> FMul(InFrame(f, l)[k], InFrame(f, w)[k])])

\* a supersample call that resampled (factor > 1)
Supersampled ==
    /\ pc = "done"
    /\ call.op = "supersample"
    /\ result.status = "ok"
    /\ call.factor \notin {None, <<1>>}

\* the coarse cell at row r, column c of the input raster
CoarseAt(r, c) ==
    CHOOSE cell \in InputCells :
        RowOf(InputCells, cell) = r /\ ColOf(InputCells, cell) = c

\* the fine cells in the window of fine cell (i, j): n = factor - 1 cells to
\* either side, clipped to the fine grid
SuperWindow(i, j) ==
    LET n == call.factor[1] - 1
    IN  {<<a, b>> \in (0..(result.shape[2] - 1)) \X (0..(result.shape[1] - 1)) :
            /\ i - n <= a /\ a <= i + n
            /\ j - n <= b /\ b <= j + n}

\* the sum over that window of weight w of the coarse cells the fine cells
\* were split from
SuperWeight(i, j, w) ==
    LET W == SuperWindow(i, j)
        f == call.factor[1]
    IN  SetSum(W, [p \in W |-> CoarseAt(p[1] \div f, p[2] \div f)[w]])

\* C5: the zero-weight policy is uniform: in average_data, downsample and
\* supersample every cell of a weighted field whose weights sum to exactly
\* zero (cancelling non-zero weights included) is 0, and no weighted output
\* is NaN or infinite
C5_ZeroWeightUniform ==
    /\ Averaged =>
          \A p \in AvgPairs : \A k \in Cells :
              /\ ~IsNaN(MeanOf(p[1])[k]) /\ ~IsInf(MeanOf(p[1])[k])
              /\ IsZero(FrameSum(p[2], k)) => MeanOf(p[1])[k] = Zero
    /\ Downsampled =>
          \A p \in Range(call.weights) : \A k \in 1..Len(Out) :
              /\ ~IsNaN(Out[k][p[1]]) /\ ~IsInf(Out[k][p[1]])
              /\ IsZero(WindowWeight(k, p[2])) => Out[k][p[1]] = Zero
    /\ Supersampled =>
          \A p \in Range(call.weights) : \A k \in 1..Len(Out) :
              /\ ~IsNaN(Out[k][p[1]]) /\ ~IsInf(Out[k][p[1]])
              /\ IsZero(SuperWeight(OutRow(k), OutCol(k), p[2]))
                     => Out[k][p[1]] = Zero

\* average_data met weights that are not zero and sum to zero, and put the
\* largest double where the weighted field should be zero
C5_Witness ==
    /\ Averaged
    /\ NumFrames = 2
    /\ InFrame(1, "M")[2] = Num(-1)
    /\ InFrame(2, "M")[2] = Num(1)
    /\ IsZero(FrameSum("M", 2))
    /\ FrameMoment("U", "M", 2) = Num(2)
    /\ MeanOf("U")[2] = FloatMax

\* no declared weight is itself a declared weighted field
WeightsIndependent ==
    \A p \in Range(call.weights) : p[2] \notin PairLabels(call.weights)

\* C5 holds where the code guards the division: downsample, and supersample
\* when no weight is itself a weighted field
C5_ZeroWeightResample ==
    /\ Downsampled =>
          \A p \in Range(call.weights) : \A k \in 1..Len(Out) :
              IsZero(WindowWeight(k, p[2])) => Out[k][p[1]] = Zero
    /\ (Supersampled /\ WeightsIndependent) =>
          \A p \in Range(call.weights) : \A k \in 1..Len(Out) :
              IsZero(SuperWeight(OutRow(k), OutCol(k), p[2]))
                  => Out[k][p[1]] = Zero

\* supersample reaches a window whose non-zero weights cancel
C5_SuperCancelReached ==
    /\ Supersampled
    /\ call.weights # <<>>
    /\ \E k \in 1..Len(Out) :
          /\ IsZero(SuperWeight(OutRow(k), OutCol(k), "M"))
          /\ \E p \in SuperWindow(OutRow(k), OutCol(k)) :
                ~IsZero(CoarseAt(p[1] \div 2, p[2] \div 2).M)

\* C6: average_data: at every cell where the weight W of a field F is zero in
\* every record, the averaged F is exactly 0, whatever F is in the records
\* (NaN and infinities included)
C6_AllZeroWeights ==
    Averaged =>
        \A p \in AvgPairs : \A k \in Cells :
            (\A f \in 1..NumFrames : IsZero(InFrame(f, p[2])[k]))
                => MeanOf(p[1])[k] = Zero

C6_Witness ==
    /\ Averaged
    /\ NumFrames = 2
    /\ \A f \in 1..NumFrames : IsZero(InFrame(f, "M")[1]) /\ IsZero(InFrame(f, "N")[1])
    /\ \E f \in 1..NumFrames : InFrame(f, "T")[1] = PosInf /\ IsNaN(InFrame(f, "U")[1])
    /\ \E f \in 1..NumFrames : InFrame(f, "V")[1] = Num(2)
    /\ MeanOf("T")[1] = Zero
    /\ MeanOf("U")[1] = Zero
    /\ MeanOf("V")[1] = Zero

AveragedFlow == pc = "done" /\ call.op = "average_flow" /\ mean.status = "ok"

\* out is sum(field*weight)/sum(weight) at cell k, for a non-zero finite sum
\* of weights and a finite sum of field*weight
IsWeightedMean(out, l, w, k) ==
    (/\ FrameSum(w, k)[2] > 0
     /\ ~IsZero(FrameSum(w, k))
     /\ FrameMoment(l, w, k)[2] > 0)
        => /\ out[2] > 0
           /\ FMul(out, FrameSum(w, k)) = FrameMoment(l, w, k)

\* out is the arithmetic mean of field l at cell k across the records
IsPlainMean(out, l, k) == FMul(out, Num(NumFrames)) = FrameSum(l, k)

\* C7: average_data over N >= 1 matching records returns per cell M and N as
\* the arithmetic mean across the records, U and V as sum(field*M)/sum(M) and
\* T as sum(T*N)/sum(N) (where the sum of weights is not zero); the
\* generalized averager does so for the declared pairs and takes the plain
\* mean of every other non-coordinate field
C7_Averages ==
    /\ Averaged =>
          \A k \in Cells :
              /\ \A l \in {"M", "N"} : IsPlainMean(MeanOf(l)[k], l, k)
              /\ \A p \in AvgPairs : IsWeightedMean(MeanOf(p[1])[k], p[1], p[2], k)
    /\ AveragedFlow =>
          \A k \in Cells : \A l \in AvgLabels \ {"X", "Y"} :
              IF l \in PairLabels(call.weights)
              THEN IsWeightedMean(MeanOf(l)[k], l, WeightOf(call.weights, l), k)
              ELSE IsPlainMean(MeanOf(l)[k], l, k)

C7_Witness ==
    /\ Averaged
    /\ NumFrames = 3
    /\ FrameSum("M", 2) = Num(1)
    /\ FrameSum("N", 2) = Num(2)
    /\ FrameMoment("U", "M", 2) = Num(4)
    /\ MeanOf("M")[2] = <<1, 3>>
    /\ MeanOf("N")[2] = <<2, 3>>
    /\ MeanOf("U")[2] = Num(4)
    /\ MeanOf("V")[2] = Num(4)
    /\ MeanOf("T")[2] = Zero

\* two coordinate values disagree beyond the tolerance of the call
Disagree(a, b) ==
    /\ ~np_isclose(a, b, call.atol, call.rtol)
    /\ ~np_isclose(b, a, call.atol, call.rtol)

\* some pair of the records handed over disagrees in a coordinate
SomePairDisagrees ==
    \E f \in 1..NumFrames, g \in 1..NumFrames : \E l \in {"X", "Y"} :
        \E k \in 1..Len(InFrame(f, l)) : Disagree(InFrame(f, l)[k], InFrame(g, l)[k])

\* C8: average_data fails with ValueError whenever any pair of the records
\* handed over disagrees in X or Y beyond the tolerance, pairs without the
\* first record included, and returns no record when it fails
C8_AnyPairMismatchFails ==
    (pc = "done" /\ call.op = "average") =>
        /\ SomePairDisagrees => mean.status = "ValueError"
        /\ mean.status = "ValueError" => mean.rec = <<>>

\* average_data returned a record for three records of which the second and
\* the third disagree beyond the default tolerance
C8_Witness ==
    /\ Averaged
    /\ NumFrames = 3
    /\ call.atol = <<1, 1000>>
    /\ InFrame(1, "X") = <<Num(0), Num(1)>>
    /\ InFrame(2, "X") = << <<-1, 1000>>, <<999, 1000>> >>
    /\ InFrame(3, "X") = << <<1, 1000>>, <<1001, 1000>> >>
    /\ Disagree(InFrame(2, "X")[1], InFrame(3, "X")[1])

\* C9 as claimed: the coordinates returned equal, element for element, the
\* coordinates of every record that average_data accepted
C9_CoordsOfEveryRecord ==
    Averaged =>
        \A f \in 1..NumFrames : \A l \in {"X", "Y"} : MeanOf(l) = InFrame(f, l)

\* C9 as amended: the coordinates returned are those of the first record,
\* exactly; every other accepted record agrees with them within the tolerance
C9_CoordsOfFirstRecord ==
    Averaged =>
        \A l \in {"X", "Y"} :
            /\ MeanOf(l) = InFrame(1, l)
            /\ \A f \in 2..NumFrames : \A k \in Cells :
                   np_isclose(MeanOf(l)[k], InFrame(f, l)[k], call.atol, call.rtol)

C9_Witness ==
    /\ Averaged
    /\ NumFrames = 2
    /\ InFrame(1, "X") = <<Num(0), Num(1)>>
    /\ InFrame(2, "X") = << <<1, 1000>>, <<1001, 1000>> >>
    /\ MeanOf("X") = <<Num(0), Num(1)>>

\* C10: supersample with factor None or 1 returns a record with data, shape,
\* spacing, origin and num_bins equal to the input's, in storage of its own:
\* writing into the returned array leaves the input as it was
C10_IdentityCopy ==
    (pc \in {"done", "poked"} /\ call.op = "supersample"
        /\ call.factor \in {None, <<1>>}) =>
        /\ result.status = "ok"
        /\ result.shape = flow.shape
        /\ result.spacing = flow.spacing
        /\ result.origin = flow.origin
        /\ result.num_bins = flow.num_bins
        /\ result.ref # flow.ref
        /\ heap[flow.ref] = before[flow.ref]
        /\ pc = "done" => heap[result.ref] = before[flow.ref]
        /\ pc = "poked" => heap[result.ref] # before[flow.ref]

C10_Witness ==
    /\ pc = "poked"
    /\ call.op = "supersample"
    /\ call.factor = <<1>>
    /\ flow.shape = <<2, 2>>
    /\ heap[result.ref][1].M = FAdd(before[flow.ref][1].M, Num(1))
    /\ Tail(heap[result.ref]) = Tail(before[flow.ref])
    /\ heap[flow.ref] = before[flow.ref]

---------------------------------------------------------------------------
(* Supersampling, stated on the record handed over and the one returned *)

\* the smallest coordinate of the input on an axis
MinCoord(l) ==
    CHOOSE v \in {c[l] : c \in InputCells} :
        \A c \in InputCells : FLe(v, c[l])

SuperFactor == call.factor[1]

\* C11: supersample by f > 1 of a grid of shape (nx, ny), spacing (dx, dy):
\* shape (nx*f, ny*f), spacing (dx/f, dy/f), origin the smallest input
\* coordinate of each axis, num_bins nx*ny*f*f, and coordinates
\* origin + spacing*index, stored row by row (y-major, x-minor)
C11_SupersampledGrid ==
    Supersampled =>
        LET f == SuperFactor
            nx == flow.shape[1] * f
            ny == flow.shape[2] * f
        IN  /\ result.shape = <<nx, ny>>
            /\ result.spacing = <<FDiv(flow.spacing[1], Num(f)),
                                  FDiv(flow.spacing[2], Num(f))>>
            /\ result.origin = <<MinCoord("X"), MinCoord("Y")>>
            /\ result.num_bins = flow.shape[1] * flow.shape[2] * f * f
            /\ Len(Out) = result.num_bins
            /\ \A k \in 1..Len(Out) :
                  /\ Out[k].X = FAdd(MinCoord("X"),
                        FMul(FDiv(flow.spacing[1], Num(f)), Num((k - 1) % nx)))
                  /\ Out[k].Y = FAdd(MinCoord("Y"),
                        FMul(FDiv(flow.spacing[2], Num(f)), Num((k - 1) \div nx)))

C11_Witness ==
    /\ Supersampled
    /\ flow.shape = <<2, 1>>
    /\ call.factor = <<2>>
    /\ result.shape = <<4, 2>>
    /\ result.spacing = << <<1, 4>>, Num(1) >>
    /\ result.origin = <<Half, Num(-1)>>
    /\ Len(Out) = 8
    /\ Out[2].X = <<3, 4>> /\ Out[2].Y = Num(-1)
    /\ Out[5].X = Half /\ Out[5].Y = Num(0)

\* the sum of field l over the window of fine cell (i, j), every fine cell
\* (r, c) carrying the value of coarse cell (r div f, c div f)
SuperSum(i, j, l) == SuperWeight(i, j, l)

\* the sum of field l times weight w over that window
SuperMoment(i, j, l, w) ==
    LET W == SuperWindow(i, j)
        f == SuperFactor
    IN  SetSum(W, [p \in W |-> FMul(CoarseAt(p[1] \div f, p[2] \div f)[l],
                                    CoarseAt(p[1] \div f, p[2] \div f)[w])])

\* C12: supersample by f > 1: every unweighted field of every fine cell
\* (i, j) is the arithmetic mean of the block-expanded input over the fine
\* rows max(0, i-f+1)..min(ny-1, i+f-1) and the fine columns
\* max(0, j-f+1)..min(nx-1, j+f-1); a window clear of the border has 2f-1
\* cells per axis
C12_WindowMean ==
    Supersampled =>
        \A k \in 1..Len(Out) :
            LET i == OutRow(k)
                j == OutCol(k)
                n == SuperFactor - 1
                size == Cardinality(SuperWindow(i, j))
            IN  /\ \A l \in Unweighted :
                      FMul(Out[k][l], Num(size)) = SuperSum(i, j, l)
                /\ (/\ n <= i /\ i + n < result.shape[2]
                    /\ n <= j /\ j + n < result.shape[1])
                       => size = (2 * SuperFactor - 1) * (2 * SuperFactor - 1)

C12_Witness ==
    /\ Supersampled
    /\ flow.shape = <<2, 2>>
    /\ call.factor = <<2>>
    /\ call.weights = <<>>
    /\ Cardinality(SuperWindow(1, 1)) = 9
    /\ SuperSum(1, 1, "M") = Num(7)
    /\ Out[6].M = <<7, 9>>
    /\ Cardinality(SuperWindow(0, 3)) = 4
    /\ Out[4].M = Num(1)

\* field l of fine cell k is sum(l*w)/sum(w) over the cell's window of the
\* block-expanded input, and 0 when the weights of the window sum to zero
IsWindowRatio(k, l, w) ==
    LET i == OutRow(k)
        j == OutCol(k)
    IN  IF IsZero(SuperWeight(i, j, w)) THEN Out[k][l] = Zero
        ELSE FMul(Out[k][l], SuperWeight(i, j, w)) = SuperMoment(i, j, l, w)

\* C13: supersample by f > 1: for every declared pair (field, weight) and
\* every fine cell the output is sum(value*weight)/sum(weight) over the
\* clamped window, of the values and weights the input holds, and 0 when the
\* weights of the window sum to zero
C13_WeightedWindowRatio ==
    Supersampled =>
        \A k \in 1..Len(Out) : \A p \in Range(call.weights) :
            IsWindowRatio(k, p[1], p[2])

\* C13 holds when no declared weight is itself a declared weighted field
C13_RatioOfIndependentWeights ==
    (Supersampled /\ WeightsIndependent) =>
        \A k \in 1..Len(Out) : \A p \in Range(call.weights) :
            IsWindowRatio(k, p[1], p[2])

\* supersample weighted U by M after M had been multiplied by its own
\* weight N: a single cell M = 1, N = 2, U = 2 gives U = 1
C13_Witness ==
    /\ Supersampled
    /\ call.weights = << <<"U", "M">>, <<"M", "N">> >>
    /\ flow.shape = <<1, 1>>
    /\ before[flow.ref][1].M = Num(1)
    /\ before[flow.ref][1].N = Num(2)
    /\ before[flow.ref][1].U = Num(2)
    /\ Out[1].U = Num(1)
    /\ ~IsWindowRatio(1, "U", "M")

\* the weighted path with independent weights, cancelling weights included
C13_IndependentReached ==
    /\ Supersampled
    /\ call.weights = << <<"U", "M">> >>
    /\ flow.shape = <<2, 2>>
    /\ IsZero(SuperWeight(1, 1, "M"))
    /\ ~IsZero(SuperMoment(1, 1, "U", "M"))
    /\ Out[6].U = Zero
    /\ SuperWeight(0, 0, "M") = Num(4)
    /\ Out[1].U = Num(2)

---------------------------------------------------------------------------
(* Supersampling and downsampling again *)

\* the record supersample returned was downsampled by its factor
WentBack == pc = "back" /\ back.status = "ok"

Back == heap[back.ref]

\* field l has one value over the whole input grid
IsConstant(l) == \A c \in InputCells, d \in InputCells : c[l] = d[l]

\* the input cell at the raster position of cell k of the record that came back
CoarseOf(k) == CoarseAt((k - 1) \div back.shape[1], (k - 1) % back.shape[1])

\* C14: supersample by f, then downsample by (f, f): the record that comes
\* back has the shape of the input and, at f = 1 and for every field constant
\* over the grid at f > 1, the unweighted values of the input
C14_RoundTrip ==
    WentBack =>
        /\ back.shape = flow.shape
        /\ Len(Back) = Cardinality(InputCells)
        /\ \A l \in Unweighted :
              (SuperFactor = 1 \/ IsConstant(l)) =>
                  \A k \in 1..Len(Back) : Back[k][l] = CoarseOf(k)[l]

\* what comes back: the input at f = 1; at f > 1 a constant unweighted field
\* comes back f*f times as large, the sum of f*f fine cells that each hold the
\* mean
C14_RoundTripScaled ==
    WentBack =>
        /\ back.shape = flow.shape
        /\ Len(Back) = Cardinality(InputCells)
        /\ \A l \in Unweighted :
              (SuperFactor = 1 \/ IsConstant(l)) =>
                  \A k \in 1..Len(Back) :
                      Back[k][l] = FMul(Num(SuperFactor * SuperFactor),
                                        CoarseOf(k)[l])

\* a grid with N = 1 in both cells came back with N = 4
C14_Witness ==
    /\ WentBack
    /\ call.factor = <<2>>
    /\ flow.shape = <<2, 1>>
    /\ IsConstant("N")
    /\ \A c \in InputCells : c.N = Num(1)
    /\ result.shape = <<4, 2>>
    /\ \A k \in 1..Len(Out) : Out[k].N = Num(1)
    /\ Len(Back) = 2
    /\ Back[1].N = Num(4)
    /\ Back[2].N = Num(4)

\* at f = 1 the values come back as they were
C14_IdentityReached ==
    /\ WentBack
    /\ call.factor = <<1>>
    /\ flow.shape = <<2, 2>>
    /\ ~IsConstant("M")
    /\ \A k \in 1..Len(Back) : Back[k].M = CoarseOf(k).M

---------------------------------------------------------------------------
(* The grid of a downsampled record *)

\* the smallest coordinate on an axis of the cells inside the limits: the
\* origin of the grid that is combined
CutOrigin(l) ==
    CHOOSE v \in {c[l] : c \in CutCells} : \A c \in CutCells : FLe(v, c[l])

\* v is the mean of coordinate l over the set of cells S
IsMeanCoord(v, S, l) == FMul(v, Num(Cardinality(S))) = FieldSum(S, l)

\* strata's combine_bins returned
Combined == pc = "done" /\ call.op = "combine"

\* the cells (indices) of the strata map handed over, and the rank of a cell's
\* coordinate l among the distinct coordinates of the map
StrataCells == 1..Len(InFrame(1, "X"))
StrataRank(p, l) ==
    Cardinality({InFrame(1, l)[q] : q \in {r \in StrataCells :
                    FLt(InFrame(1, l)[r], InFrame(1, l)[p])}})

\* the cells of the strata map combined into cell k of the returned map:
\* nx columns and ny rows of the grid, cell k being at x index
\* (k-1) div shape_y and y index (k-1) mod shape_y
StrataWindowCells(k) ==
    LET i == (k - 1) \div result.shape[2]
        j == (k - 1) % result.shape[2]
    IN  {p \in StrataCells :
            /\ call.nx * i <= StrataRank(p, "X")
            /\ StrataRank(p, "X") < call.nx * (i + 1)
            /\ call.ny * j <= StrataRank(p, "Y")
            /\ StrataRank(p, "Y") < call.ny * (j + 1)}

\* v is the mean of coordinate l over the cells W of the strata map
IsStrataMeanCoord(v, W, l) ==
    FMul(v, Num(Cardinality(W))) = SetSum(W, [p \in W |-> InFrame(1, l)[p]])

\* C15: downsample: the new origin is the old origin + 0.5*(new spacing - old
\* spacing) on each axis, the mean of the coordinates of the fine bins the
\* first coarse bin covers, and the coordinate of every coarse cell is the
\* mean of the coordinates of the fine cells of its window; in
\* downsample_flow_data and in strata's combine_bins
C15_DownsampledOrigin ==
    /\ Combined =>
        /\ \A a \in 1..2 :
              result.origin[a] =
                  FAdd(flow.origin[a],
                       FMul(Half, FSub(result.spacing[a], flow.spacing[a])))
        /\ Len(MeanOf("X")) = result.num_bins
        /\ \A k \in 1..result.num_bins :
              LET W == StrataWindowCells(k)
              IN  /\ Cardinality(W) = call.nx * call.ny
                  /\ IsStrataMeanCoord(MeanOf("X")[k], W, "X")
                  /\ IsStrataMeanCoord(MeanOf("Y")[k], W, "Y")
                  /\ k = 1 => /\ MeanOf("X")[k] = result.origin[1]
                              /\ MeanOf("Y")[k] = result.origin[2]
    /\ Downsampled =>
            /\ result.origin =
                  <<FAdd(CutOrigin("X"),
                         FMul(Half, FSub(result.spacing[1], flow.spacing[1]))),
                    FAdd(CutOrigin("Y"),
                         FMul(Half, FSub(result.spacing[2], flow.spacing[2])))>>
            /\ (call.xlim = <<None, None>> /\ call.ylim = <<None, None>>)
                  => CutOrigin("X") = flow.origin[1] /\ CutOrigin("Y") = flow.origin[2]
            /\ Len(Out) > 0 =>
                  /\ IsMeanCoord(result.origin[1], WindowCells(CutCells, 0, 0), "X")
                  /\ IsMeanCoord(result.origin[2], WindowCells(CutCells, 0, 0), "Y")
            /\ \A k \in 1..Len(Out) :
                  LET W == WindowCells(CutCells, OutRow(k), OutCol(k))
                  IN  /\ Cardinality(W) = call.num_combine[1] * call.num_combine[2]
                      /\ IsMeanCoord(Out[k].X, W, "X")
                      /\ IsMeanCoord(Out[k].Y, W, "Y")

\* combine_bins put the origin and the cells at the means too
C15_CombinedReached ==
    /\ Combined
    /\ flow.shape = <<2, 2>>
    /\ call.nx = 2 /\ call.ny = 1
    /\ result.origin = << <<3, 4>>, Num(-1) >>
    /\ MeanOf("X") = << <<3, 4>>, <<3, 4>> >>
    /\ MeanOf("Y") = <<Num(-1), Num(1)>>

C15_Witness ==
    /\ Downsampled
    /\ flow.shape = <<2, 2>>
    /\ flow.origin = <<Half, Num(-1)>>
    /\ call.num_combine = <<2, 1>>
    /\ call.xlim = <<None, None>> /\ call.ylim = <<None, None>>
    /\ result.origin = << <<3, 4>>, Num(-1) >>
    /\ Len(Out) = 2
    /\ Out[1].X = <<3, 4>> /\ Out[1].Y = Num(-1)
    /\ Out[2].X = <<3, 4>> /\ Out[2].Y = Num(1)

\* the system was cut to limits
CutCalled == pc = "done" /\ call.op = "cut"
WasCut == CutCalled /\ result.status = "ok"

\* what a cut that returned a record guarantees: the cells inside both
\* limits, in the order of the input; the shape counts the distinct
\* coordinates left, the origin is the smallest of them on each axis
CutGuarantee ==
    /\ Out = SelectSeq(before[1],
                LAMBDA c : InLim(c.X, call.xlim) /\ InLim(c.Y, call.ylim))
    /\ Range(Out) = CutCells
    /\ result.shape = <<NumCols(CutCells), NumRows(CutCells)>>
    /\ \E c \in CutCells : c.X = result.origin[1]
    /\ \E c \in CutCells : c.Y = result.origin[2]
    /\ \A c \in CutCells : FLe(result.origin[1], c.X) /\ FLe(result.origin[2], c.Y)
    /\ result.spacing = flow.spacing
    /\ result.num_bins = result.shape[1] * result.shape[2]
    /\ result.num_bins = Cardinality(CutCells)
    /\ result.num_bins = Len(Out)

\* C16 (as stated): cut(xlim, ylim) on a structured record returns the cells
\* with x in [xlim.lo, xlim.hi] and y in [ylim.lo, ylim.hi] (None unbounded),
\* shape the number of distinct surviving coordinates per axis, origin the
\* smallest surviving coordinate per axis, spacing unchanged, num_bins the
\* product of the shape and the number of surviving cells
C16_CutReturnsSelection ==
    CutCalled => result.status = "ok" /\ CutGuarantee

\* C16 (amended): the same when at least one cell lies inside the limits;
\* when none does the call fails with ValueError and returns no record
C16_CutOfNonEmptySelection ==
    CutCalled =>
        /\ (CutCells # {}) => result.status = "ok" /\ CutGuarantee
        /\ (CutCells = {}) => result.status = "ValueError"

\* a 4x1 map cut to its two middle columns
C16_Witness ==
    /\ WasCut
    /\ flow.shape = <<4, 1>>
    /\ call.xlim = <<Num(1), <<3, 2>> >>
    /\ result.shape = <<2, 1>>
    /\ result.origin = <<Num(1), Num(-1)>>
    /\ result.num_bins = 2
    /\ Len(Out) = 2

\* a cut that leaves no cell
C16_EmptyCutReached ==
    CutCalled /\ CutCells = {} /\ result.status = "ValueError"

\* get_combined_grid was called; it returned a grid
GridCalled == pc = "done" /\ call.op = "grid"
GridDone == GridCalled /\ result.status = "grid"

\* the samples of all records handed over, and the cells of the common grid
Samples == UNION {Range(before[frames[f]]) : f \in 1..Len(frames)}
GridOut == heap[result.ref]
GridFields == UNION {DOMAIN c : c \in Samples}

\* the smallest and largest coordinate l over all samples
SampleMin(l) == CHOOSE v \in {c[l] : c \in Samples} :
                    \A c \in Samples : FLe(v, c[l])
SampleMax(l) == CHOOSE v \in {c[l] : c \in Samples} :
                    \A c \in Samples : FLe(c[l], v)

\* coordinate v is a whole number of steps d from v0
OnAxis(v, v0, d) == FDiv(FSub(v, v0), d)[2] = 1

\* every sample lies on the grid of the spacing through the smallest
\* coordinates
GridAligned ==
    \A c \in Samples : /\ OnAxis(c.X, SampleMin("X"), call.spacing[1])
                        /\ OnAxis(c.Y, SampleMin("Y"), call.spacing[2])

\* C17: get_combined_grid of a non-empty list of grid-aligned records: the x
\* axis is min_x, min_x + dx, ... and covers the largest x (likewise y), the
\* shape is (len(y axis), len(x axis)) with y the row and x the column, every
\* field of the records is there and zero, and every sample has the
\* coordinates of exactly one cell
C17_CommonGrid ==
    (GridCalled /\ frames # <<>> /\ GridAligned) =>
        /\ result.status = "grid"
        /\ LET ny == result.shape[1]
               nx == result.shape[2]
               dx == call.spacing[1]
               dy == call.spacing[2]
           IN  /\ nx >= 1 /\ ny >= 1
               /\ Len(GridOut) = ny * nx
               /\ \A k \in 1..Len(GridOut) :
                     /\ GridOut[k].X =
                            FAdd(SampleMin("X"), FMul(dx, Num((k - 1) % nx)))
                     /\ GridOut[k].Y =
                            FAdd(SampleMin("Y"), FMul(dy, Num((k - 1) \div nx)))
                     /\ DOMAIN GridOut[k] = GridFields
                     /\ \A l \in GridFields \ Range(coord_labels) :
                            GridOut[k][l] = Zero
               /\ FLe(SampleMax("X"), GridOut[Len(GridOut)].X)
               /\ FLe(SampleMax("Y"), GridOut[Len(GridOut)].Y)
               /\ FLt(GridOut[Len(GridOut)].X, FAdd(SampleMax("X"), dx))
               /\ FLt(GridOut[Len(GridOut)].Y, FAdd(SampleMax("Y"), dy))
               /\ \A c \in Samples :
                     Cardinality({k \in 1..Len(GridOut) :
                         GridOut[k].X = c.X /\ GridOut[k].Y = c.Y}) = 1

\* the grids [0,1]^2 and [2,3]^2 at spacing 1 unify to [0,3]^2, shape (4, 4)
C17_Witness ==
    /\ GridDone
    /\ Len(frames) = 2
    /\ before[1] = UnitGrid(0) /\ before[2] = UnitGrid(2)
    /\ call.spacing = <<Num(1), Num(1)>>
    /\ result.shape = <<4, 4>>
    /\ GridOut[1] = [X |-> Num(0), Y |-> Num(0), C |-> Zero]
    /\ GridOut[2] = [X |-> Num(1), Y |-> Num(0), C |-> Zero]
    /\ GridOut[16] = [X |-> Num(3), Y |-> Num(3), C |-> Zero]

\* records off the grid of the spacing: a sample that is at no cell
C17_UnalignedReached ==
    /\ GridDone
    /\ ~GridAligned
    /\ \E c \in Samples :
          \A k \in 1..Len(GridOut) : GridOut[k].X # c.X \/ GridOut[k].Y # c.Y

\* C18: get_combined_grid of an empty list fails with ValueError and returns
\* no grid: no array, built in part or whole, is handed out
C18_NoInputFails ==
    (GridCalled /\ frames = <<>>) =>
        /\ result = Strip(Raise("ValueError"), 0)
        /\ heap = before
        /\ DOMAIN heap = {}

C18_Witness ==
    /\ GridCalled
    /\ frames = <<>>
    /\ call.spacing = <<Half, Num(1)>>
    /\ result.status = "ValueError"

\* transfer_data was called; it returned a record
Transferred == pc \in {"back", "again"} /\ call.op = "transfer"
TransferDone == Transferred /\ back.status = "flat"

\* the block of cell k of the destination grid: the index into the block
\* handed over when row and column of k lie inside the window, 0 otherwise
BlockIndex(k) ==
    LET i == (k - 1) \div result.shape[2]
        j == (k - 1) % result.shape[2]
        row == call.offset[1]
        col == call.offset[2]
    IN  IF /\ row <= i /\ i < row + call.bshape[1]
           /\ col <= j /\ j < col + call.bshape[2]
        THEN (i - row) * call.bshape[2] + (j - col) + 1
        ELSE 0

\* what the record returned holds, cell by cell
TransferGuarantee ==
    LET dest == heap[call.dest]
        bins == heap[call.bins]
        out == heap[back.ref]
    IN  /\ back.ref \notin {call.dest, call.bins}
        /\ Len(out) = Len(dest)
        /\ Len(bins) = call.bshape[1] * call.bshape[2]
        /\ Cardinality({k \in 1..Len(out) : BlockIndex(k) # 0}) = Len(bins)
        /\ \A k \in 1..Len(out) :
              /\ DOMAIN out[k] = DOMAIN dest[k]
              /\ \A l \in DOMAIN out[k] :
                    out[k][l] = IF l \in Range(coord_labels) \/ BlockIndex(k) = 0
                                THEN dest[k][l]
                                ELSE bins[BlockIndex(k)][l]

\* a call of transfer_data leaves every array there was as it was
TransferKeeps ==
    (call'.op = "transfer") => \A r \in DOMAIN heap : heap'[r] = heap[r]

\* C19: transfer_data of a block of shape (h, w) at offset (row, col) returns
\* a new flat record: every field but the coordinates has the block's value
\* in rows [row, row + h) and columns [col, col + w) and the destination's
\* value elsewhere, the coordinates are the destination's; destination and
\* block are not modified
C19_Transfer ==
    /\ [](TransferDone => TransferGuarantee)
    /\ [][TransferKeeps]_vars

\* a 2x2 block put at (1, 1) of the 4x4 grid
C19_Witness ==
    /\ TransferDone
    /\ pc = "back"
    /\ result.shape = <<4, 4>>
    /\ call.bshape = <<2, 2>>
    /\ call.offset = <<1, 1>>
    /\ heap[back.ref][6] = [X |-> Num(1), Y |-> Num(1), C |-> Num(1)]
    /\ heap[back.ref][11] = [X |-> Num(2), Y |-> Num(2), C |-> Num(4)]
    /\ heap[back.ref][1] = [X |-> Num(0), Y |-> Num(0), C |-> Zero]
    /\ heap[call.bins][1] = [X |-> Num(-1), Y |-> Num(-1), C |-> Num(1)]

\* a second transfer into a grid that already holds values: they are kept
\* outside the window
C19_PriorKeptReached ==
    /\ TransferDone
    /\ pc = "again"
    /\ \E k \in 1..Len(heap[back.ref]) :
          /\ BlockIndex(k) = 0
          /\ \E l \in DOMAIN heap[back.ref][k] \ Range(coord_labels) :
                heap[back.ref][k][l] # Zero

\* an offset that puts the block outside the grid
C19_OutsideReached ==
    Transferred /\ back.status = "IndexError"

---------------------------------------------------------------------------
(* The records handed over, after the call *)

\* downsample_flow_data, supersample_flow_data or average_data was called and
\* has returned or raised
Called == pc = "done" /\ call.op \in {"downsample", "supersample", "average"}

\* C20: downsample_flow_data, supersample_flow_data and average_data leave
\* every record handed over as it was: after the call, returned or raised,
\* every array of the input holds the values it held before the call in the
\* order it held them
C20_InputsUnchanged ==
    Called =>
        /\ DOMAIN before \subseteq DOMAIN heap
        /\ \A r \in DOMAIN before : heap[r] = before[r]

\* supersampling a map stored x-major, which the call sorts by (y, x)
C20_Witness ==
    /\ Called
    /\ call.op = "supersample"
    /\ call.factor = <<2>>
    /\ result.status = "ok"
    /\ flow.shape = <<2, 2>>
    /\ np_sort(before[flow.ref], <<"Y", "X">>) # before[flow.ref]
    /\ heap[flow.ref] = before[flow.ref]
    /\ heap[result.ref] # before[flow.ref]

\* a call that failed
C20_FailedReached ==
    /\ Called
    /\ call.op = "downsample"
    /\ result.status = "ValueError"
    /\ heap = before

\* average_data of three records
C20_AveragedReached ==
    /\ Called
    /\ call.op = "average"
    /\ mean.status = "ok"
    /\ NumFrames = 3
    /\ \A r \in DOMAIN before : heap[r] = before[r]

---------------------------------------------------------------------------
(* Translation *)

Translated == pc = "done" /\ call.op = "translate"

\* C21: translate(label, t) returns a record whose field `label` is the
\* original + t at every element (the other fields and the grid as they
\* were), and the field of the record it was called on is unchanged afterwards
C21_TranslateReturnsMoved ==
    (Translated /\ call.label \in Labels) =>
        /\ result.status = "ok"
        /\ Len(Out) = Len(before[flow.ref])
        /\ \A k \in 1..Len(Out) : \A l \in Labels :
              Out[k][l] = IF l = call.label
                          THEN FAdd(before[flow.ref][k][l], call.t)
                          ELSE before[flow.ref][k][l]
        /\ result.shape = flow.shape /\ result.spacing = flow.spacing
        /\ result.origin = flow.origin /\ result.num_bins = flow.num_bins
        /\ heap[flow.ref] = before[flow.ref]

C21_Witness ==
    /\ Translated
    /\ call.label = "X"
    /\ call.t = Num(1)
    /\ flow.shape = <<2, 2>>
    /\ Out[1].X = <<3, 2>>
    /\ Out[4].X = Num(2)
    /\ heap[flow.ref][1].X = Half
    /\ heap[flow.ref][4].X = Num(1)

\* a label the record has not
C21_BadLabelReached ==
    Translated /\ call.label = "nolabel" /\ result.status = "KeyError"

---------------------------------------------------------------------------
(* Numbered files, stated on the names yielded and the files there are *)

\* the number a name carries
NumberOf(name) == DigitsValue(name.digits)

\* the name is the input file with number n, written with five digits or more
IsInputFile(name, n) ==
    /\ name.base = gen.base /\ name.ext = gen.ext /\ name.backup = <<>>
    /\ Len(name.digits) >= 5
    /\ NumberOf(name) = n

Grouping == gen.kind = "groups"
\* the number the k-th bundle (counted from 0) is to start at
BundleStart(k) == gen.begin + k * (IF gen.rolling THEN 1 ELSE gen.group)

IsBundleFrom(b, first) ==
    /\ Len(b) = gen.group
    /\ \A i \in 1..Len(b) : IsInputFile(b[i], first + i - 1) /\ Exists(disk, b[i])
    /\ FLe(Num(first + gen.group - 1), gen.end)

\* C22: every bundle find_datamap_files yields for group = g holds g files
\* that exist, numbered consecutively from begin + k*g (from begin + k when
\* rolling) for the k-th bundle, the last number not above `end`; so a bundle
\* that runs past `end` or lacks a file is not yielded, nor anything after it.
C22_BundlesComplete ==
    Grouping =>
        \A k \in 1..Len(yielded) : IsBundleFrom(yielded[k], BundleStart(k - 1))

C22_Witness ==
    /\ Grouping /\ gen.done /\ ~gen.rolling /\ gen.group = 2 /\ gen.begin = 1
    /\ Len(yielded) = 2
    /\ NumberOf(yielded[2][1]) = 3 /\ NumberOf(yielded[2][2]) = 4
    /\ yielded[2][2].digits = <<0, 0, 0, 0, 4>>

C22_RollingReached ==
    /\ Grouping /\ gen.done /\ gen.rolling /\ gen.group = 2 /\ gen.begin = 1
    /\ Len(yielded) = 3
    /\ NumberOf(yielded[3][1]) = 3 /\ NumberOf(yielded[3][2]) = 4

\* file 3 is missing and file 4 is there: only files 1 and 2 are yielded
C22_MissingReached ==
    /\ Grouping /\ gen.done /\ gen.group = 2 /\ gen.begin = 1 /\ gen.end = PosInf
    /\ ~Exists(disk, FileName(gen.base, Num(3), gen.ext))
    /\ Exists(disk, FileName(gen.base, Num(4), gen.ext))
    /\ Exists(disk, FileName(gen.base, Num(2), gen.ext))
    /\ Len(yielded) = 1

\* the bundle 3, 4 exists but `end` is 3
C22_PastEndReached ==
    /\ Grouping /\ gen.done /\ ~gen.rolling /\ gen.group = 2 /\ gen.begin = 1
    /\ gen.end = Num(3)
    /\ Exists(disk, FileName(gen.base, Num(3), gen.ext))
    /\ Exists(disk, FileName(gen.base, Num(4), gen.ext))
    /\ Len(yielded) = 1

Pairing == gen.kind = "pairs"

\* the name is the output file with number n
IsOutputFile(name, n) ==
    /\ name.base = gen.output /\ name.ext = gen.outext /\ name.backup = <<>>
    /\ Len(name.digits) >= 5
    /\ NumberOf(name) = n

\* K = ceil(N / M)
IsCeilOf(K, N, M) == K * M >= N /\ (K - 1) * M < N

\* C23: find_groups_to_singles yields each bundle with one output name, whose
\* number is ceil(N / M) for the first number N and the size M of the bundle
\* (N itself when rolling); the output numbers increase strictly from one
\* bundle to the next.
C23_OneOutputPerBundle ==
    Pairing =>
        /\ \A k \in 1..Len(yielded) :
              /\ Len(yielded[k]) = 2
              /\ IsBundleFrom(yielded[k][1], BundleStart(k - 1))
              /\ LET N == NumberOf(yielded[k][1][1])
                     M == Len(yielded[k][1])
                     K == NumberOf(yielded[k][2])
                 IN  /\ IsOutputFile(yielded[k][2], K)
                     /\ IF gen.rolling THEN K = N ELSE IsCeilOf(K, N, M)
        /\ \A j \in 1..Len(yielded), k \in 1..Len(yielded) :
              j < k => /\ NumberOf(yielded[j][2]) < NumberOf(yielded[k][2])
                       /\ yielded[j][2] # yielded[k][2]

\* files 1..4 in bundles of two from 1: outputs 1 and 2
C23_Witness ==
    /\ Pairing /\ gen.done /\ ~gen.rolling /\ gen.group = 2 /\ gen.begin = 1
    /\ Len(yielded) = 2
    /\ NumberOf(yielded[1][1][1]) = 1 /\ yielded[1][2].digits = <<0, 0, 0, 0, 1>>
    /\ NumberOf(yielded[2][1][1]) = 3 /\ yielded[2][2].digits = <<0, 0, 0, 0, 2>>
    /\ yielded[2][2].base = "out_" /\ yielded[2][2].ext = ".avg"

C23_RollingReached ==
    /\ Pairing /\ gen.done /\ gen.rolling /\ gen.group = 2 /\ gen.begin = 2
    /\ Len(yielded) = 2
    /\ NumberOf(yielded[2][1][1]) = 3 /\ NumberOf(yielded[2][2]) = 3

---------------------------------------------------------------------------
(* Writing to a path that is taken *)

Writing == gen.kind = "write"
\* the names a backup of the path can have here
BackupNumbers == 1..(MaxBackup + MaxWrites + 1)

\* k is the smallest number >= 1 at which d has no backup of the path
SmallestFree(d, k) ==
    /\ ~Exists(d, BackupName(gen.path, k))
    /\ \A j \in 1..(k - 1) : Exists(d, BackupName(gen.path, j))

\* the contents there are in d
Contents(d) == {d[n] : n \in DOMAIN d}

\* a call of the writer: the file at the path went to the smallest free
\* backup name before the writer ran, the path was free for the writer, and
\* every other file is as it was
WriteKeeps ==
    (Writing /\ gen'.writes = gen.writes + 1) =>
        /\ ~Exists(gen'.seen, gen.path)
        /\ Exists(disk, gen.path) =>
              \E k \in BackupNumbers :
                  /\ SmallestFree(disk, k)
                  /\ BackupName(gen.path, k).backup # <<>>
                  /\ Exists(gen'.seen, BackupName(gen.path, k))
                  /\ gen'.seen[BackupName(gen.path, k)] = disk[gen.path]
                  /\ disk'[BackupName(gen.path, k)] = disk[gen.path]
        /\ \A n \in DOMAIN disk \ {gen.path} :
              /\ Exists(gen'.seen, n) /\ gen'.seen[n] = disk[n]
              /\ Exists(disk', n) /\ disk'[n] = disk[n]
        /\ disk'[gen.path] = gen'.writes

\* after n writes the n contents written and all there was before are there
AllContentsKept ==
    Writing =>
        /\ \A c \in 1..gen.writes : c \in Contents(disk)
        /\ Contents(gen.first) \subseteq Contents(disk)
        /\ Cardinality(DOMAIN disk) = Cardinality(DOMAIN gen.first) + gen.writes

\* C24: a call through prepare_path destroys no file: a file at the path is
\* renamed to '#name.k#' for the smallest free k >= 1 before the writer runs,
\* the writer finds the path free, the backups there were stay as they were,
\* and after n writes all earlier contents are still there.
C24_NothingLost == []AllContentsKept /\ [][WriteKeeps]_vars

\* third write to a path that was taken, with backups 1 and 3 there before:
\* the first content went to backup 2, the next two to backups 4 and 5
C24_Witness ==
    /\ Writing /\ gen.writes = 3
    /\ Exists(gen.first, gen.path)
    /\ DOMAIN gen.first = {gen.path, BackupName(gen.path, 1), BackupName(gen.path, 3)}
    /\ disk[BackupName(gen.path, 2)] = 0
    /\ disk[BackupName(gen.path, 4)] = 1
    /\ disk[BackupName(gen.path, 5)] = 2
    /\ disk[gen.path] = 3
    /\ disk[BackupName(gen.path, 1)] = -1 /\ disk[BackupName(gen.path, 3)] = -3

\* nothing at the path: nothing is renamed
C24_FreePathReached ==
    /\ Writing /\ gen.writes = 1 /\ ~Exists(gen.first, gen.path)
    /\ gen.seen = gen.first /\ disk[gen.path] = 1

---------------------------------------------------------------------------
(* Single files *)

Singles == gen.kind = "singles"
\* there is an input file with number n
InputFileThere(n) == \E name \in DOMAIN disk : IsInputFile(name, n)

\* the names yielded are those of the files begin, begin + 1, ... without a
\* gap, none past `end`; once the generator has stopped, the next number is
\* past `end` or has no file
SinglesExact ==
    Singles =>
        /\ \A k \in 1..Len(yielded) :
              /\ IsInputFile(yielded[k], gen.begin + k - 1)
              /\ Exists(disk, yielded[k])
              /\ FLe(Num(gen.begin + k - 1), gen.end)
        /\ gen.done =>
              LET n == gen.begin + Len(yielded)
              IN  ~FLe(Num(n), gen.end) \/ ~InputFileThere(n)

\* `end` is finite or a file at or after begin is missing
MustStop ==
    IsFinite(gen.end) \/ \E n \in gen.begin..(MaxFile + 1) : ~InputFileThere(n)

\* C25: find_datamap_files without group yields exactly the files numbered
\* begin, begin + 1, ..., n - 1 in this order, n the first number past `end`
\* or without a file, and it stops whenever `end` is finite or a file at or
\* after begin is missing.
C25_SinglesUpToFirstGap ==
    []SinglesExact /\ ((Singles /\ MustStop) ~> (Singles /\ gen.done))

\* files 1..4 are there and end = 3: three names
C25_Witness ==
    /\ Singles /\ gen.done /\ gen.begin = 1 /\ gen.end = Num(3)
    /\ InputFileThere(4)
    /\ Len(yielded) = 3
    /\ yielded[1].digits = <<0, 0, 0, 0, 1>> /\ yielded[3].digits = <<0, 0, 0, 0, 3>>

\* file 2 is missing, file 3 is there, no end: only file 1 is yielded
C25_GapReached ==
    /\ Singles /\ gen.done /\ gen.begin = 1 /\ gen.end = PosInf
    /\ ~InputFileThere(2) /\ InputFileThere(3)
    /\ Len(yielded) = 1 /\ gen.files_found

\* no file at begin: nothing is yielded, a warning is given
C25_NoneFoundReached ==
    /\ Singles /\ gen.done /\ gen.warned /\ yielded = <<>> /\ InputFileThere(4)

---------------------------------------------------------------------------
(* Downsampling twice *)

DownsampledTwice == pc = "twice"

\* the record handed over, downsampled once by the product of the factors
Once ==
    downsample_flow_data(Load(heap, flow),
        <<call.num_combine[1] * call.again[1], call.num_combine[2] * call.again[2]>>,
        call.weights, <<None, None>>, <<None, None>>)

Twice == heap[back.ref]

SameGrid(once) ==
    /\ back.shape = once.shape
    /\ back.spacing = once.spacing
    /\ back.origin = once.origin
    /\ back.num_bins = once.num_bins
    /\ Len(Twice) = Len(once.data)
    /\ \A k \in 1..Len(Twice) : \A l \in Range(coord_labels) :
          Twice[k][l] = once.data[k][l]

SameField(once, l) == \A k \in 1..Len(Twice) : Twice[k][l] = once.data[k][l]

\* the weight of field l is summed by the call and nowhere negative
PlainWeight(l) ==
    LET w == WeightOf(call.weights, l)
    IN  /\ w \notin PairLabels(call.weights)
        /\ \A k \in 1..Len(heap[flow.ref]) : FLe(Zero, heap[flow.ref][k][w])

\* C26 (as stated): downsampling by (a, b) and then by (c, d), same weights,
\* no limits, gives the shape, spacing, origin and field values of one
\* downsampling by (a*c, b*d)
C26_Composes ==
    DownsampledTwice =>
        \E once \in {Once} :
            /\ back.status = once.status
            /\ back.status = "ok" =>
                  /\ SameGrid(once)
                  /\ \A l \in DataLabels : SameField(once, l)

\* C26 (amended): the same for the grid and for every summed field when the
\* first downsampling leaves at least one cell, and for a weighted field whose
\* weight is a summed field without negative values; when the first
\* downsampling leaves no cell, the second fails with ValueError
C26_ComposesPlain ==
    DownsampledTwice =>
        \E once \in {Once} :
            /\ once.status = "ok"
            /\ result.num_bins = 0 => back.status = "ValueError"
            /\ result.num_bins > 0 =>
                  /\ back.status = "ok"
                  /\ SameGrid(once)
                  /\ \A l \in DataLabels \ PairLabels(call.weights) :
                        SameField(once, l)
                  /\ \A l \in PairLabels(call.weights) :
                        PlainWeight(l) => SameField(once, l)

\* a 4x1 map by (2, 1) and (2, 1), U weighted by M: one cell, M the sum of
\* four, U the mean over the cells with mass
C26_Witness ==
    /\ DownsampledTwice
    /\ flow.shape = <<4, 1>>
    /\ call.num_combine = <<2, 1>> /\ call.again = <<2, 1>>
    /\ call.weights = << <<"U", "M">> >>
    /\ \A k \in 1..4 : FLe(Zero, heap[flow.ref][k].M)
    /\ back.status = "ok" /\ back.shape = <<1, 1>>
    /\ Twice[1].M = Num(3) /\ Twice[1].U = Num(2) /\ Twice[1].N = Num(7)

\* a 3x1 map by (2, 1) and (1, 1): the third column is cut off either way
C26_NotDivisibleReached ==
    /\ DownsampledTwice
    /\ flow.shape = <<3, 1>>
    /\ call.num_combine = <<2, 1>> /\ call.again = <<1, 1>>
    /\ back.status = "ok" /\ back.shape = <<1, 1>>
    /\ Twice = Once.data

\* a 1x1 map by (2, 1): no cell is left, and downsampling that fails
C26_EmptyReached ==
    /\ DownsampledTwice
    /\ flow.shape = <<1, 1>> /\ call.num_combine = <<2, 1>>
    /\ result.status = "ok" /\ result.num_bins = 0
    /\ back.status = "ValueError"
    /\ Once.status = "ok"

\* weights that cancel in a window of the first downsampling
C26_CancelReached ==
    /\ DownsampledTwice
    /\ call.weights = << <<"U", "M">> >>
    /\ back.status = "ok" /\ back.num_bins > 0
    /\ SameGrid(Once)
    /\ ~SameField(Once, "U")

---------------------------------------------------------------------------
(* Downsampling by (1, 1) *)

DownsampledByOne ==
    /\ Downsampled
    /\ call.num_combine = <<1, 1>>
    /\ call.xlim = <<None, None>> /\ call.ylim = <<None, None>>

In == heap[flow.ref]

SameInfo ==
    /\ result.shape = flow.shape
    /\ result.spacing = flow.spacing
    /\ result.origin = flow.origin
    /\ result.num_bins = flow.num_bins
    /\ Len(Out) = Len(In)

\* output cell j lies where input cell k lies
SamePlace(j, k) == \A l \in Range(coord_labels) : Out[j][l] = In[k][l]

C27_ReorderedReached ==
    /\ DownsampledByOne
    /\ flow.shape = <<2, 2>>
    /\ call.weights = <<>>
    /\ Out # In
    /\ Out[2] = In[3] /\ Out[3] = In[2]

---------------------------------------------------------------------------
(* The range of a supersampled field *)

SupersampleReturned ==
    pc = "done" /\ call.op = "supersample" /\ result.status = "ok"

\* v lies between the smallest and the largest value of field l of the input
WithinInput(l, v) ==
    /\ \E c \in InputCells : FLe(c[l], v)
    /\ \E c \in InputCells : FLe(v, c[l])

---------------------------------------------------------------------------
(* The arrays of an averaged record *)

MeanPoked == pc = "poked" /\ call.op = "average"

\* C29: the record average_data returns owns its arrays, X and Y included:
\* none is an array of a record handed over, and writing into a returned
\* array leaves every record handed over as it was
C29_MeanOwnsArrays ==
    /\ Averaged => \A l \in AvgLabels : mean.rec[l] \notin DOMAIN before
    /\ MeanPoked => \A r \in DOMAIN before : heap[r] = before[r]

\* the caller added 1 to X[0] of the mean of two records: X[0] of the first
\* record handed over went from 0 to 1
C29_Witness ==
    /\ MeanPoked
    /\ NumFrames = 2
    /\ mean.rec["X"] = frames[1]["X"]
    /\ InFrame(1, "X") = <<Num(0), Num(1)>>
    /\ heap[frames[1]["X"]] = <<Num(1), Num(1)>>
    /\ \A l \in AvgLabels \ {"X"} : heap[frames[1][l]] = InFrame(1, l)

\* the arrays computed by the call are its own: writing into M of the mean
\* changes no record handed over
C29_OwnFieldReached ==
    /\ MeanPoked
    /\ NumFrames = 2
    /\ mean.rec["M"] \notin DOMAIN before
    /\ heap[mean.rec["M"]] # <<>>
    /\ \A r \in DOMAIN before : heap[r] = before[r]

---------------------------------------------------------------------------
(* Combining bins in two ways *)

BothDone == pc = "both"

Down == heap[back.ref]
StrataFields == {"M", "N", "T", "U", "V"}

\* cell j of the downsampled record lies where cell k of the combined map lies
SameCoords(j, k) == Down[j].X = MeanOf("X")[k] /\ Down[j].Y = MeanOf("Y")[k]

\* C30: combine_bins(data, info, nx, ny) and downsample_flow_data(flow,
\* (nx, ny), weights = [(T, N), (U, M), (V, M)]) on the same full grid give the
\* same shape, spacing and origin and, cell for cell by coordinate, the same
\* value of M, N, T, U and V, zero where the weights of a window sum to zero
C30_CombinersAgree ==
    BothDone =>
        /\ back.status = "ok"
        /\ back.shape = result.shape
        /\ back.spacing = result.spacing
        /\ back.origin = result.origin
        /\ back.num_bins = result.num_bins
        /\ Len(Down) = Len(MeanOf("X"))
        /\ \A k \in 1..Len(MeanOf("X")) :
              /\ Cardinality({j \in 1..Len(Down) : SameCoords(j, k)}) = 1
              /\ \A j \in 1..Len(Down) :
                    SameCoords(j, k) =>
                        \A l \in StrataFields : Down[j][l] = MeanOf(l)[k]

\* a 2x2 map combined by (1, 2): two cells, in the order of x either way;
\* in the first M sums to zero and U is 0, N sums to zero and T is 0
C30_Witness ==
    /\ BothDone
    /\ flow.shape = <<2, 2>>
    /\ call.nx = 1 /\ call.ny = 2
    /\ back.shape = <<2, 1>>
    /\ InFrame(1, "M") = <<Num(1), Num(-1), Num(1), Num(1)>>
    /\ MeanOf("M") = <<Zero, Num(2)>> /\ MeanOf("U") = <<Zero, Num(2)>>
    /\ Down[1].M = Zero /\ Down[1].U = Zero /\ Down[1].V = Zero
    /\ Down[2].M = Num(2) /\ Down[2].U = Num(2) /\ Down[2].T = Num(1)

\* a 3x1 map combined by (2, 1): the third column is left out by both
C30_NotSquareReached ==
    /\ BothDone
    /\ flow.shape = <<3, 1>>
    /\ call.nx = 2 /\ call.ny = 1
    /\ back.shape = <<1, 1>>
    /\ Len(Down) = 1

\* a 4-cell map kept as it is: the orders of the cells differ
C30_OrdersDifferReached ==
    /\ BothDone
    /\ flow.shape = <<2, 2>>
    /\ call.nx = 1 /\ call.ny = 1
    /\ Down[2].X = MeanOf("X")[3] /\ Down[2].Y = MeanOf("Y")[3]
    /\ Down[2].X # MeanOf("X")[2]


====
